---------------------------- MODULE Spec2Model ----------------------------
(***************************************************************************)
(* A model of the flight-itinerary extraction pipeline of                  *)
(* Flight-Query-Parser: query_parser.py (FlightDate, AirportValidator,     *)
(* DurationCalculator, DayOffsetCalculator, HintExtractor, DateValidator,  *)
(* FlightValidator, FlightPostProcessor, FlightParser) and gds_parser.py   *)
(* (GDSParser and its segment builder / stitcher / assembler).             *)
(*                                                                         *)
(* Texts are modelled by their tokens: the date spellings, airport codes,  *)
(* clock times and GDS segment lines they hold, each list in document      *)
(* order.  Every regular expression of the source is modelled by the set   *)
(* of token spellings it matches.  Strings that the source formats and     *)
(* parses again (dates, durations, flight numbers) are records of their    *)
(* parts, so that formatting and parsing are computed, not assumed.        *)
(***************************************************************************)
EXTENDS Integers, Sequences, FiniteSets, TLC

VARIABLES
    pc,         \* position of the call: see the actions
    entry,      \* "single" (extract_flight), "multi" (extract_multiple_flights),
                \* "process" (FlightPostProcessor.process), "gds" (GDSParser.parse)
    text,       \* the input text, as its tokens
    nowYear,    \* datetime.now().year of the run
    regexHints, \* HintExtractor.extract(processed_text)
    response,   \* what the external extractor answered to the last request
    data,       \* the flight(s) handed to FlightPostProcessor.process
    multi,      \* is_multi_flight of the process call
    out,        \* the flights returned to the caller
    out2,       \* process applied again to the flights of out (same hints, text)
    calls       \* requests issued to the external extractor in this call

vars == <<pc, entry, text, nowYear, regexHints, response, data, multi, out, out2, calls>>

-----------------------------------------------------------------------------
(* Bounds of the model *)

\* most date tokens in a text
MaxDates == 2
\* most segments the extractor supplies for one flight / most lines of a GDS section
MaxSegs == 2

-----------------------------------------------------------------------------
(* Generic helpers *)

RECURSIVE SeqsUpTo(_, _)
SeqsUpTo(S, n) ==
    IF n = 0 THEN {<<>>}
    ELSE LET shorter == SeqsUpTo(S, n - 1)
         IN  shorter \cup {Append(s, x) : s \in {t \in shorter : Len(t) = n - 1}, x \in S}

Last(s) == s[Len(s)]

\* list(dict.fromkeys(xs)): first occurrences, in order
RECURSIVE Dedup(_)
Dedup(s) ==
    IF s = <<>> THEN <<>>
    ELSE LET front == Dedup(SubSeq(s, 1, Len(s) - 1))
         IN  IF \E i \in 1..Len(front) : front[i] = Last(s) THEN front ELSE Append(front, Last(s))

-----------------------------------------------------------------------------
(* Values the external extractor may put in a JSON field besides a string *)

NA      == "N/A"
NULL    == "<null>"     \* JSON null
NONSTR  == "<number>"   \* a JSON number where a string is expected
BLANK   == ""

IsStr(v) == v \notin {NULL, NONSTR}

\* Python truthiness of a field value
Truthy(v) == v \notin {NULL, BLANK}

-----------------------------------------------------------------------------
(* Reference data: mappings.py *)

AIRPORT_CODES == {"DEL", "SIN", "AUH", "DOH"}

AirportCity(code) ==
    CASE code = "DEL" -> "Delhi"
      [] code = "SIN" -> "Singapore Changi"
      [] code = "AUH" -> "Abu Dhabi"
      [] code = "DOH" -> "Doha Hamad"
      [] OTHER -> code

\* str.upper().strip() on the codes of the model
Upper(v) ==
    CASE v = "del" -> "DEL"
      [] v = "sin" -> "SIN"
      [] OTHER -> v

\* UTC offset of the airport's timezone in minutes (AIRPORT_TZ_MAP + pytz);
\* 0 when the airport has no timezone entry.  The four airports of the model
\* are in zones without daylight saving, so the offset does not depend on
\* the flight date.
get_offset_minutes(airport) ==
    CASE airport = "DEL" -> 330
      [] airport = "SIN" -> 480
      [] airport = "AUH" -> 240
      [] airport = "DOH" -> 180
      [] OTHER -> 0

-----------------------------------------------------------------------------
(* Dates.                                                                  *)
(* A date string is a record of its parts: day d, written with two digits  *)
(* when pad (or d >= 10), month m, year y (-1: none; 0..99: two digits;    *)
(* >= 1000: four digits), ordinal suffix ord, and its form: "abbr" is      *)
(* "DD Mon [YY]", "full" is "DD Month [YYYY]", "iso" is "YYYY-MM-DD".      *)

DateStr(d, m, y, pad, ord, form) ==
    [k |-> "date", d |-> d, m |-> m, y |-> y, pad |-> pad, ord |-> ord, form |-> form]

NoDateStr(kind) ==
    [k |-> kind, d |-> 0, m |-> 0, y |-> -1, pad |-> FALSE, ord |-> FALSE, form |-> "-"]

\* the string "N/A", JSON null, a JSON number, and the empty string
DATE_NA     == NoDateStr("na")
DATE_NULL   == NoDateStr("null")
DATE_NONSTR == NoDateStr("nonstr")
DATE_EMPTY  == NoDateStr("empty")

DayDigits(d, pad) == IF d >= 10 \/ pad THEN 2 ELSE 1

\* a datetime, or None
NoDatetime == [y |-> 0, m |-> 0, d |-> 0]

IsLeap(y) == y % 4 = 0 /\ (y % 100 # 0 \/ y % 400 = 0)

\* the real calendar, as datetime enforces it
DaysInMonth(y, m) ==
    CASE m = 2 -> IF IsLeap(y) THEN 29 ELSE 28
      [] m \in {4, 6, 9, 11} -> 30
      [] OTHER -> 31

\* max_days_in_month of extract_all_from_text and DateValidator.MONTH_DAYS:
\* February always has 29 days
MONTH_DAYS(m) ==
    CASE m = 2 -> 29
      [] m \in {4, 6, 9, 11} -> 30
      [] OTHER -> 31

clean_date_string(ds) ==
    IF ds.k \in {"na", "null", "empty"} THEN DATE_EMPTY
    ELSE [ds EXCEPT !.ord = FALSE]

\* strptime's %y: 00..68 are 20xx, 69..99 are 19xx
Pivot(y) == IF y < 69 THEN 2000 + y ELSE 1900 + y

\* year 1900 is what strptime assumes for a format without a year
StrptimeDefaultYear == 1900

FlightDate_parse(ds, default_year) ==
    IF ds.k \in {"na", "null", "empty"} THEN NoDatetime
    ELSE LET c == clean_date_string(ds)
         IN  IF c.k # "date" THEN NoDatetime
             ELSE IF c.y >= 0
                  THEN \* FORMATS_WITH_YEAR
                       LET yr == IF c.y < 100 THEN Pivot(c.y) ELSE c.y
                       IN  IF (c.form = "iso" => c.y >= 1000)
                              /\ c.d >= 1 /\ c.d <= DaysInMonth(yr, c.m)
                           THEN [y |-> yr, m |-> c.m, d |-> c.d]
                           ELSE NoDatetime
                  ELSE \* FORMATS_WITHOUT_YEAR: parsed in 1900, then replace(year=...)
                       IF c.form \in {"abbr", "full"}
                          /\ c.d >= 1 /\ c.d <= DaysInMonth(StrptimeDefaultYear, c.m)
                       THEN [y |-> default_year, m |-> c.m, d |-> c.d]
                       ELSE NoDatetime

\* strftime("%d %b %y")
FlightDate_format(dt) ==
    IF dt = NoDatetime THEN DATE_NA
    ELSE DateStr(dt.d, dt.m, dt.y % 100, TRUE, FALSE, "abbr")

(* A date token of the text: its spelling sp                               *)
(*   "glued"     30JAN26          "gluednoyr"  30JAN                       *)
(*   "dmon"      30 Jan [26]      "mond"       Jan 30[, 2026]              *)
(*   "iso"       2026-01-30       "num"        30/01/2026                  *)
(* with the parts of a date string, full (month written in full) and meta  *)
(* (a metadata marker such as "output" within the 25 characters before it) *)
DateTok(sp, d, m, y, pad, ord, full, meta) ==
    [sp |-> sp, d |-> d, m |-> m, y |-> y, pad |-> pad, ord |-> ord,
     full |-> full, meta |-> meta]

\* whether one of FlightDate._DATE_PATTERNS matches the token
MatchesDatePattern(tok) ==
    \/ tok.sp = "glued" /\ tok.y >= 0
    \/ tok.sp \in {"dmon", "mond"}
    \/ tok.sp = "iso" /\ tok.y >= 2000 /\ tok.y <= 2099
    \/ tok.sp = "num" /\ tok.y >= 0

\* _resolve_match and the calendar check and formatting that follow it:
\* the normalized date string of a matched token, DATE_NA when it is skipped
ResolveTok(tok, default_year) ==
    LET yr == IF tok.y >= 0
              THEN (IF tok.y < 100 THEN tok.y + 2000 ELSE tok.y)
              ELSE default_year
    IN  IF ~(tok.d >= 1 /\ tok.d <= 31) THEN DATE_NA
        ELSE IF ~(tok.m >= 1 /\ tok.m <= 12) \/ tok.d > MONTH_DAYS(tok.m) THEN DATE_NA
        ELSE IF yr # 0 THEN DateStr(tok.d, tok.m, yr % 100, TRUE, FALSE, "abbr")
        ELSE DateStr(tok.d, tok.m, -1, TRUE, FALSE, "abbr")

\* the matched tokens in document order, normalized
RECURSIVE ResolveAll(_, _)
ResolveAll(toks, default_year) ==
    IF toks = <<>> THEN <<>>
    ELSE LET front == ResolveAll(SubSeq(toks, 1, Len(toks) - 1), default_year)
             t     == Last(toks)
             r     == ResolveTok(t, default_year)
         IN  IF MatchesDatePattern(t) /\ r # DATE_NA THEN Append(front, r) ELSE front

\* default_year = None is 0 in _resolve_match
extract_all_from_text(toks, default_year) == Dedup(ResolveAll(toks, default_year))

\* the written year of the token starts with the written year of the string
YearPrefix(sy, ty) ==
    \/ sy = ty
    \/ sy >= 0 /\ sy < 100 /\ ty >= 1000 /\ ty \div 100 = sy

\* the lower-cased date string occurs in the lower-cased token, character for
\* character
ContainsLiteral(tok, ds) ==
    /\ ds.k = "date" /\ ~ds.ord
    /\ tok.d = ds.d /\ tok.m = ds.m
    /\ CASE ds.form = "iso" -> tok.sp = "iso" /\ tok.y = ds.y
         [] ds.form = "abbr" ->
               /\ tok.sp = "dmon" /\ ~tok.ord
               /\ (DayDigits(ds.d, ds.pad) = 2 => DayDigits(tok.d, tok.pad) = 2)
               /\ (ds.y >= 0 => ~tok.full /\ YearPrefix(ds.y, tok.y))
         [] ds.form = "full" ->
               /\ tok.sp = "dmon" /\ ~tok.ord /\ tok.full
               /\ (DayDigits(ds.d, ds.pad) = 2 => DayDigits(tok.d, tok.pad) = 2)
               /\ (ds.y >= 0 => YearPrefix(ds.y, tok.y))
         [] OTHER -> FALSE

\* strategy 2 of is_in_text: re.escape escapes each space, and the
\* substitution then keeps the backslash, so the pattern asks for a literal
\* backslash wherever the date string has a space
HasSpace(ds) == ds.form \in {"abbr", "full"}

\* strategies 3 and 4: day and first three letters of the month, year ignored
DayMonthMatch(tok, ds) ==
    /\ ds.form \in {"abbr", "full"}
    /\ tok.d = ds.d /\ tok.m = ds.m
    /\ DayDigits(tok.d, tok.pad) = DayDigits(ds.d, ds.pad)
    /\ ~tok.ord
    /\ tok.sp \in {"dmon", "glued", "gluednoyr", "mond"}

is_in_text(ds, toks) ==
    IF ds.k \in {"na", "null", "empty"} THEN FALSE
    ELSE LET c == clean_date_string(ds)
         IN  \E i \in 1..Len(toks) :
                \/ ContainsLiteral(toks[i], c)
                \/ ~HasSpace(c) /\ ContainsLiteral(toks[i], c)
                \/ DayMonthMatch(toks[i], c)

\* DateValidator._NORM_PAT and the day range
is_valid_calendar_date(ds) ==
    IF ds.k \in {"na", "null", "empty"} THEN FALSE
    ELSE LET c == clean_date_string(ds)
         IN  /\ c.k = "date" /\ c.form = "abbr"
             /\ c.d >= 1 /\ c.d <= MONTH_DAYS(c.m)

validate_against_text(ds, toks) ==
    /\ ds.k \notin {"na", "null", "empty"}
    /\ is_valid_calendar_date(ds)
    /\ is_in_text(ds, toks)

pick_best_date(llm_date, regex_dates, toks) ==
    IF regex_dates # <<>> THEN regex_dates[1]
    ELSE IF llm_date.k \notin {"na", "null", "empty"} /\ validate_against_text(llm_date, toks)
         THEN llm_date
         ELSE DATE_NA

\* is_valid_calendar_date calls date_str.strip(): AttributeError on a number
pick_best_date_raises(llm_date, regex_dates) ==
    regex_dates = <<>> /\ llm_date.k = "nonstr"

\* the metadata filter of HintExtractor.extract: text.find locates the first
\* literal occurrence of the normalized date
IsMetadataDate(ds, toks) ==
    \E i \in 1..Len(toks) :
        /\ ContainsLiteral(toks[i], ds)
        /\ \A j \in 1..(i - 1) : ~ContainsLiteral(toks[j], ds)
        /\ toks[i].meta

RECURSIVE FilterMetadata(_, _)
FilterMetadata(ds, toks) ==
    IF ds = <<>> THEN <<>>
    ELSE LET front == FilterMetadata(SubSeq(ds, 1, Len(ds) - 1), toks)
         IN  IF IsMetadataDate(Last(ds), toks) THEN front ELSE Append(front, Last(ds))

\* hints['all_dates']
HintDates(toks) == FilterMetadata(extract_all_from_text(toks, 0), toks)

\* step 1 of FlightPostProcessor.process: the departure_date it assigns
ResolveDate(llm_date, regex_dates, toks, year) ==
    LET best == pick_best_date(llm_date, regex_dates, toks)
    IN  IF best # DATE_NA THEN FlightDate_format(FlightDate_parse(best, year))
        ELSE DATE_NA

-----------------------------------------------------------------------------
(* Clock times, durations, day offsets, layovers.                          *)
(* A clock time "HH:MM" is its minutes after midnight; a duration string   *)
(* "Xh Ym" is the record of X and Y.                                       *)

NA_TIME == -1     \* the string "N/A"
NO_TIME == -2     \* None, a missing key or the empty string

MinutesPerDay == 1440

\* DurationCalculator.parse_time: None for a missing or "N/A" time
parse_time_ok(t) == t >= 0

DUR_NA == [h |-> -1, m |-> 0]

\* f"{hours}h {minutes}m"
FormatDuration(minutes) == [h |-> minutes \div 60, m |-> minutes % 60]

\* 'N/A' -> 0.0: the code has no timezone; codes are upper-cased first
TzOf(airport) == get_offset_minutes(Upper(airport))

\* a calculator that subtracts the clock times and ignores the UTC offsets
ClockOnlyDuration(dep_time, arr_time, dep_airport, arr_airport, days_offset, check_ultra_long) ==
    IF ~parse_time_ok(dep_time) \/ ~parse_time_ok(arr_time) THEN DUR_NA
    ELSE IF days_offset > 0 THEN FormatDuration(arr_time + days_offset * MinutesPerDay - dep_time)
    ELSE IF arr_time < dep_time THEN FormatDuration(arr_time + MinutesPerDay - dep_time)
    ELSE FormatDuration(arr_time - dep_time)

DurationCalculator_calculate(dep_time, arr_time, dep_airport, arr_airport, days_offset, check_ultra_long) ==
    IF ~parse_time_ok(dep_time) \/ ~parse_time_ok(arr_time) THEN DUR_NA
    ELSE LET arr == IF days_offset > 0 THEN arr_time + days_offset * MinutesPerDay
                    ELSE IF arr_time < dep_time THEN arr_time + MinutesPerDay
                    ELSE arr_time
             apparent_minutes == arr - dep_time
             tz_diff_minutes  == TzOf(arr_airport) - TzOf(dep_airport)
             actual  == apparent_minutes - tz_diff_minutes
             alt     == actual - MinutesPerDay
             capped  == IF check_ultra_long /\ actual > MinutesPerDay
                           /\ 0 < alt /\ alt < MinutesPerDay
                        THEN alt ELSE actual
             wrapped == IF capped < 0 THEN capped + MinutesPerDay ELSE capped
         IN  FormatDuration(wrapped)

calculate_layover(prev_arr_time, next_dep_time, days_between) ==
    IF ~parse_time_ok(prev_arr_time) \/ ~parse_time_ok(next_dep_time) THEN DUR_NA
    ELSE LET dep == IF days_between > 0 THEN next_dep_time + days_between * MinutesPerDay
                    ELSE IF next_dep_time < prev_arr_time THEN next_dep_time + MinutesPerDay
                    ELSE next_dep_time
             total   == dep - prev_arr_time
             wrapped == IF total < 0 THEN total + MinutesPerDay ELSE total
         IN  FormatDuration(wrapped)

Max(a, b) == IF a >= b THEN a ELSE b

\* duration: a duration record, or DUR_NA for None / "N/A"
DayOffsetCalculator_calculate(dep_time, arr_time, duration, dep_airport, arr_airport) ==
    IF ~parse_time_ok(dep_time) \/ ~parse_time_ok(arr_time) THEN 0
    ELSE LET tz_diff == TzOf(arr_airport) - TzOf(dep_airport)
         IN  IF duration # DUR_NA /\ duration.h >= 0
             THEN \* re.match(r'(\d+)h\s*(\d+)?m?'), hours + minutes / 60
                  Max(0, (dep_time + (duration.h * 60 + duration.m) + tz_diff)
                            \div MinutesPerDay)
             ELSE IF arr_time - dep_time < -(12 * 60) THEN 1 ELSE 0

-----------------------------------------------------------------------------
(* Flight numbers: airline code, the separators written between code and   *)
(* number ("-" or " "), and the digits.                                    *)

FlightNo(code, seps, num) == [k |-> "fn", code |-> code, seps |-> seps, num |-> num]
NoFlightNo(kind) == [k |-> kind, code |-> "", seps |-> <<>>, num |-> ""]

FN_NA     == NoFlightNo("na")
FN_NULL   == NoFlightNo("null")
FN_BLANK  == NoFlightNo("blank")
FN_NONSTR == NoFlightNo("nonstr")

\* codes made of two letters, where ^([A-Z]{2})(\d) can match
TwoLetterCodes == {"AI", "EY"}
AIRLINE_CODES  == {"AI", "EY", "6E"}

AirlineName(code) ==
    CASE code = "AI" -> "Air India"
      [] code = "EY" -> "Etihad Airways"
      [] code = "6E" -> "IndiGo"
      [] OTHER -> code

\* str.replace('  ', ' '): one pass, left to right, over a run of n spaces
HalveSpaces(n) == (n \div 2) + (n % 2)

RECURSIVE Spaces(_)
Spaces(n) == IF n = 0 THEN <<>> ELSE Append(Spaces(n - 1), " ")

\* upper().replace('-', ' ').replace('  ', ' '), re.sub(r'^([A-Z]{2})(\d)', r'\1 \2'),
\* strip()
NormalizeFlightNo(fn) ==
    IF fn.k # "fn" THEN fn
    ELSE LET n == HalveSpaces(Len(fn.seps))
             k == IF n = 0 /\ fn.code \in TwoLetterCodes THEN 1 ELSE n
         IN  [fn EXCEPT !.seps = Spaces(k)]

-----------------------------------------------------------------------------
(* Fares: None, "N/A", an integer, or a string with or without digits.     *)

Fare(kind, v) == [k |-> kind, v |-> v]
FARE_NULL == Fare("null", 0)
FARE_NA   == Fare("na", 0)

\* the fare is blank for the fill of step 4: None, '', 'N/A'
FareBlank(fare) == fare.k \in {"null", "na"}

\* step 8: re.sub(r'[^\d]', '', str(fare)) and int(), None without digits;
\* a falsy fare (None, 0) is left alone.  A "str" fare holds its digits in
\* v, -1 when it has none.
CleanFare(fare) ==
    CASE fare.k = "null" -> fare
      [] fare.k = "int"  -> IF fare.v = 0 THEN fare
                            ELSE Fare("int", IF fare.v < 0 THEN -fare.v ELSE fare.v)
      [] fare.k = "str"  -> IF fare.v >= 0 THEN Fare("int", fare.v) ELSE FARE_NULL
      [] OTHER -> FARE_NULL

-----------------------------------------------------------------------------
(* Stops: "N/A", "Non Stop", "<n> Stop(s) via <names>", or the hint's      *)
(* "<n> Stop" (no via list).                                               *)

Stops(n, via) == [n |-> n, via |-> via]
STOPS_NA == Stops(-1, <<>>)
NON_STOP == Stops(0, <<>>)

-----------------------------------------------------------------------------
(* Flights and segments.  A key that is absent from a dict reads as the    *)
(* value dict.get would give: BLANK / NO_TIME / DUR_NA / DATE_NULL.        *)
(* Fields the pipeline only copies (id, refundability, pnr, trip_type,     *)
(* booking_class, aircraft, a segment's arrival_next_day) or derives       *)
(* one-to-one from modelled ones (total_journey_duration) are not carried. *)

\* a segment object as the external extractor supplies it
Seg(dep, arr, dep_time, arr_time, fn) ==
    [obj |-> TRUE,
     departure_airport |-> dep, arrival_airport |-> arr,
     departure_city |-> BLANK, arrival_city |-> BLANK,
     departure_time |-> dep_time, arrival_time |-> arr_time,
     flight_number |-> fn, airline |-> BLANK,
     departure_date |-> DATE_NULL,
     layover_duration |-> DUR_NA, layover_city |-> BLANK,
     duration |-> DUR_NA, days_offset |-> 0,
     accumulated_dep_days |-> 0, accumulated_arr_days |-> 0]

\* an element of "segments" that is not a JSON object
NonObjectSeg == [Seg(BLANK, BLANK, NO_TIME, NO_TIME, FN_BLANK) EXCEPT !.obj = FALSE]

\* FlightParser._empty_flight
_empty_flight ==
    [airline |-> NA, flight_number |-> FN_NA,
     departure_city |-> NA, departure_airport |-> NA,
     departure_date |-> DATE_NA, departure_time |-> NA_TIME,
     arrival_city |-> NA, arrival_airport |-> NA, arrival_time |-> NA_TIME,
     arrival_next_day |-> FALSE,
     days_offset |-> 0, duration |-> DUR_NA, stops |-> STOPS_NA,
     baggage |-> NA, saver_fare |-> FARE_NULL,
     segsList |-> TRUE,      \* "segments" is a list (FALSE: JSON null)
     segments |-> <<>>,
     parse_errors |-> <<>>, is_valid |-> FALSE]

Err(e, i) == [e |-> e, i |-> i]

-----------------------------------------------------------------------------
(* AirportValidator, FlightValidator                                       *)

\* AirportValidator.is_valid: three characters and a key of AIRPORT_CODES
is_valid(code) == Upper(code) \in AIRPORT_CODES

\* AirportValidator.normalize
normalize(code) == IF Truthy(code) THEN Upper(code) ELSE BLANK

check_same_airport(code_a, code_b) ==
    LET a == normalize(code_a)
        b == normalize(code_b)
    IN  a # BLANK /\ b # BLANK /\ a = b /\ is_valid(a)

UnknownCode(c) == c # BLANK /\ c # NA /\ ~is_valid(c)

BothGiven(a, b) == a # BLANK /\ b # BLANK /\ a # NA /\ b # NA

\* the "gap in route" check between consecutive segments
\* a route check that never reports a gap
NoGapInRoute(prev_arr, s_dep) == FALSE

GapInRoute(prev_arr, s_dep) == BothGiven(prev_arr, s_dep) /\ prev_arr # s_dep

\* segment checks that leave out the comparison with the previous segment
SegErrorsOwnAirports(segments, i) ==
    LET s_dep == normalize(segments[i].departure_airport)
        s_arr == normalize(segments[i].arrival_airport)
    IN  (IF UnknownCode(s_dep) THEN <<Err("seg unknown departure airport", i)>> ELSE <<>>)
        \o (IF UnknownCode(s_arr) THEN <<Err("seg unknown arrival airport", i)>> ELSE <<>>)
        \o (IF BothGiven(s_dep, s_arr) /\ check_same_airport(s_dep, s_arr)
            THEN <<Err("seg airports are the same", i)>> ELSE <<>>)

SegAirportErrors(segments, i) ==
    LET s_dep == normalize(segments[i].departure_airport)
        s_arr == normalize(segments[i].arrival_airport)
    IN  (IF UnknownCode(s_dep) THEN <<Err("seg unknown departure airport", i)>> ELSE <<>>)
        \o (IF UnknownCode(s_arr) THEN <<Err("seg unknown arrival airport", i)>> ELSE <<>>)
        \o (IF BothGiven(s_dep, s_arr) /\ check_same_airport(s_dep, s_arr)
            THEN <<Err("seg airports are the same", i)>> ELSE <<>>)
        \o (IF i > 1 /\ GapInRoute(normalize(segments[i - 1].arrival_airport), s_dep)
            THEN <<Err("gap in route", i)>> ELSE <<>>)

SegLayoverErrors(segments, i) ==
    LET s_dep == normalize(segments[i].departure_airport)
        s_arr == normalize(segments[i].arrival_airport)
        layover_ap == normalize(segments[i].layover_city)
    IN  IF is_valid(layover_ap)
        THEN (IF layover_ap = s_dep THEN <<Err("layover same as departure", i)>> ELSE <<>>)
             \o (IF layover_ap = s_arr THEN <<Err("layover same as arrival", i)>> ELSE <<>>)
        ELSE <<>>

RECURSIVE Flatten(_)
\* the lists of a list, concatenated in order
Flatten(lists) ==
    IF Len(lists) = 0 THEN <<>>
    ELSE Flatten(SubSeq(lists, 1, Len(lists) - 1)) \o lists[Len(lists)]

validate_flight_airports(flight) ==
    LET dep == normalize(flight.departure_airport)
        arr == normalize(flight.arrival_airport)
        segments == IF flight.segsList THEN flight.segments ELSE <<>>
    IN  (IF UnknownCode(dep) THEN <<Err("unknown departure airport", 0)>> ELSE <<>>)
        \o (IF UnknownCode(arr) THEN <<Err("unknown arrival airport", 0)>> ELSE <<>>)
        \o (IF BothGiven(dep, arr) /\ check_same_airport(dep, arr)
            THEN <<Err("airports are the same", 0)>> ELSE <<>>)
        \o Flatten([ix \in 1..Len(segments) |-> SegAirportErrors(segments, ix)])
        \o Flatten([ix \in 1..Len(segments) |-> SegLayoverErrors(segments, ix)])

\* value is None or value == '' or str(value).upper() == 'N/A'
MissingStr(v) == v \in {NULL, BLANK, NA}
MissingTime(t) == t < 0

SegCompletenessErrors(segments, i) ==
    LET seg == segments[i]
        has_airports == Truthy(seg.departure_airport) \/ Truthy(seg.arrival_airport)
        has_times    == seg.departure_time # NO_TIME \/ seg.arrival_time # NO_TIME
    IN  (IF has_airports /\ ~(Truthy(seg.departure_airport) /\ Truthy(seg.arrival_airport))
         THEN <<Err("incomplete airport info", i)>> ELSE <<>>)
        \o (IF has_times /\ ~(seg.departure_time # NO_TIME /\ seg.arrival_time # NO_TIME)
            THEN <<Err("incomplete time info", i)>> ELSE <<>>)

\* FlightValidator.validate: the list of errors; is_valid is its emptiness
FlightValidator_validate(flight) ==
    LET segments == IF flight.segsList THEN flight.segments ELSE <<>>
    IN  (IF MissingStr(flight.departure_airport)
         THEN <<Err("Departure airport/city could not be extracted", 0)>> ELSE <<>>)
        \o (IF MissingStr(flight.arrival_airport)
            THEN <<Err("Arrival airport/city could not be extracted", 0)>> ELSE <<>>)
        \o (IF MissingTime(flight.departure_time)
            THEN <<Err("Departure time could not be extracted", 0)>> ELSE <<>>)
        \o (IF MissingTime(flight.arrival_time)
            THEN <<Err("Arrival time could not be extracted", 0)>> ELSE <<>>)
        \o (IF Len(segments) > 1
            THEN Flatten([ix \in 1..Len(segments) |-> SegCompletenessErrors(segments, ix)]) ELSE <<>>)
        \o validate_flight_airports(flight)

Validated(flight) ==
    LET errors == FlightValidator_validate(flight)
    IN  [flight EXCEPT !.parse_errors = errors, !.is_valid = (errors = <<>>)]

-----------------------------------------------------------------------------
(* Texts and HintExtractor.extract.                                        *)
(* A text is the record of its tokens, each list in document order:        *)
(*   dates     date tokens                                                 *)
(*   airports  three-letter words and city names, as the code they denote  *)
(*   times     clock times "H:MM[am|pm]", as minutes of the day            *)
(*   fns       flight-number tokens "AI 302", "AI-302", "AI302"            *)
(*   amounts   currency amounts: part is the number of flight-number       *)
(*             tokens written before the amount                            *)
(*   durs      durations written "Xh Ym"                                   *)
(*   travel    durations written "Travel time: X hr Y min"                 *)
(*   stops, baggage   what the stops / baggage expressions find            *)
(*   gds       GDS segment lines; divided: a section divider stands        *)
(*             between consecutive lines; gtime, gdate: a four-digit time  *)
(*             / a DDMon date stands in the prose; status: a booking       *)
(*             status word ("none", "plain" HK1, "braced" HK1{})           *)

NoText ==
    [dates |-> <<>>, airports |-> <<>>, times |-> <<>>, fns |-> <<>>,
     amounts |-> <<>>, durs |-> <<>>, travel |-> <<>>,
     stops |-> STOPS_NA, baggage |-> BLANK,
     gds |-> <<>>, divided |-> FALSE, gtime |-> FALSE, gdate |-> FALSE,
     status |-> "none",
     glued |-> <<>>,      \* six-letter upper-case words: <<"DEL", "SIN">> is "DELSIN"
     abbrevs |-> <<>>,    \* airports written as a bare three-letter word: "DEL"
     plus |-> "none"]     \* a day marker after a time: "glued" ("10:30+1"),
                          \* "spaced" ("10:30 +1 " and what follows), "clean"
                          \* ("10:30 +1"), "none"

\* a currency amount: the flight-number stretch it stands in (0: before the
\* first flight number), where it stands relative to the first per-adult
\* marker of that stretch ("before", "after", or "nomarker" when the stretch
\* has none), and its value
Amount(part, pos, amt) == [part |-> part, pos |-> pos, amt |-> amt]

\* the keys of TextPreprocessor.CITY_ABBREVS among the airports of the model
CITY_ABBREVS == {"DEL", "SIN"}

\* _split_gds_airports: a six-letter word is split when both halves are keys
\* of AIRPORT_CODES
SplitsPair(pair) == pair[1] \in AIRPORT_CODES /\ pair[2] \in AIRPORT_CODES

\* the rewriting of a day marker: (\d{2}:\d{2})\+(\d) becomes '\1 +\2 ', which
\* leaves a blank after the marker; the blank goes with the strip and the
\* whitespace collapse at the start of a later call
SpaceMarker(plus) ==
    CASE plus = "glued" -> "spaced"
      [] plus = "spaced" -> "clean"
      [] OTHER -> plus

\* TextPreprocessor.process: "X hr Y min" is rewritten to "Xh Ym" (so no
\* "Travel time: X hr Y min" survives), whitespace is collapsed, a bare word
\* of CITY_ABBREVS becomes the city name (DEL becomes Delhi, which names DEL
\* again), then glued airport pairs are split into two bare words, which
\* from then on name their airports
TextPreprocessor_process(t) ==
    LET NotAbbrev(w) == w \notin CITY_ABBREVS
        NotSplit(pair) == ~SplitsPair(pair)
    IN  [t EXCEPT !.travel = <<>>, !.durs = t.durs \o t.travel,
                  !.abbrevs = SelectSeq(t.abbrevs, NotAbbrev)
                                 \o Flatten(SelectSeq(t.glued, SplitsPair)),
                  !.glued = SelectSeq(t.glued, NotSplit),
                  !.airports = t.airports \o Flatten(SelectSeq(t.glued, SplitsPair)),
                  !.plus = SpaceMarker(t.plus)]

\* the elements of s satisfying Test, in order


\* codes the flight-number scan of the hints accepts besides AIRLINE_CODES
ExtraHintCodes == {"LX", "UK", "EY"}

\* f"{airline_code} {flight_num}"
HintFlightNo(tok) == FlightNo(tok.code, <<" ">>, tok.num)

FARE_MIN_THRESHOLD == 500

\* _extract_fare_from_segment on the amounts of a stretch of text: the last
\* amount of at least FARE_MIN_THRESHOLD in search_in (the text before the
\* first marker, the whole stretch when there is no marker), else the first
\* such amount of the whole stretch; -1 for None
_extract_fare_from_segment(amounts) ==
    LET IsBig(a) == a.amt >= FARE_MIN_THRESHOLD
        InSearch(a) == a.pos \in {"before", "nomarker"}
        big == SelectSeq(SelectSeq(amounts, InSearch), IsBig)
        big_all == SelectSeq(amounts, IsBig)
    IN  IF big # <<>> THEN Last(big).amt
        ELSE IF big_all # <<>> THEN big_all[1].amt ELSE -1

\* the value of an amount whose digits group holds separators only ("$,",
\* "₹ ,"): [\d,]+ matches the comma and int('') of it raises ValueError
NO_DIGITS == -1

\* _extract_fare_from_segment raises: an amount without digits stands in
\* search_in, or search_in has no big amount and the whole stretch is
\* scanned and holds one
_extract_fare_raises(amounts) ==
    LET IsBig(a) == a.amt >= FARE_MIN_THRESHOLD
        InSearch(a) == a.pos \in {"before", "nomarker"}
        NoDigits(a) == a.amt = NO_DIGITS
    IN  \/ SelectSeq(SelectSeq(amounts, InSearch), NoDigits) # <<>>
        \/ /\ SelectSeq(SelectSeq(amounts, InSearch), IsBig) = <<>>
           /\ SelectSeq(amounts, NoDigits) # <<>>

\* fare_by_flight: one entry per distinct flight number, in order of first
\* occurrence, holding the fare of its last occurrence's stretch
FareByFlight(fn_positions, amounts) ==
    LET keys == Dedup(fn_positions)
        LastPos(fn) == CHOOSE i \in 1..Len(fn_positions) :
                          /\ fn_positions[i] = fn
                          /\ \A j \in (i + 1)..Len(fn_positions) : fn_positions[j] # fn
        FareOf(fn) == LET InPart(a) == a.part = LastPos(fn)
                      IN  [fn |-> fn,
                           fare |-> _extract_fare_from_segment(SelectSeq(amounts, InPart))]
    IN  [ix \in 1..Len(keys) |-> FareOf(keys[ix])]

NoHints ==
    [all_flight_numbers |-> <<>>, flight_number |-> FN_BLANK, airline |-> BLANK,
     all_airports |-> <<>>, departure_airport |-> BLANK, arrival_airport |-> BLANK,
     departure_city |-> BLANK, arrival_city |-> BLANK,
     departure_time |-> NO_TIME, arrival_time |-> NO_TIME,
     all_dates |-> <<>>, duration |-> DUR_NA,
     fare_by_flight |-> <<>>, saver_fare |-> FARE_NULL,
     baggage |-> BLANK, stops |-> STOPS_NA]

\* an arrival hint taken from the second time found
SecondTimeFound(times_24h) == times_24h[2]

\* hints['arrival_time'] = times_24h[-1]
ArrivalTimeHint(times_24h) == Last(times_24h)

\* HintExtractor.extract raises instead of returning: the fare scan of some
\* flight-number stretch does, or that of the whole text when the text has
\* no flight number
HintExtractor_extract_raises(t) ==
    LET InAirlineCodes(tok) == tok.code \in AIRLINE_CODES
        n == Len(SelectSeq(t.fns, InAirlineCodes))
        PartRaises(i) == LET InPart(a) == a.part = i
                         IN  _extract_fare_raises(SelectSeq(t.amounts, InPart))
    IN  IF n > 0 THEN \E i \in 1..n : PartRaises(i)
        ELSE _extract_fare_raises(t.amounts)

HintExtractor_extract(t) ==
    LET Accepted(tok) == tok.code \in AIRLINE_CODES \cup ExtraHintCodes
        found_flights == Dedup([ix \in 1..Len(SelectSeq(t.fns, Accepted)) |-> HintFlightNo(SelectSeq(t.fns, Accepted)[ix])])
        Known(code) == code \in AIRPORT_CODES
        ordered_airports == Dedup(SelectSeq(t.airports, Known))
        dep_code == ordered_airports[1]
        arr_code == IF Len(ordered_airports) >= 2 THEN Last(ordered_airports)
                    ELSE ordered_airports[1]
        valid_dates == HintDates(t.dates)
        InAirlineCodes(tok) == tok.code \in AIRLINE_CODES
        fn_positions == [ix \in 1..Len(SelectSeq(t.fns, InAirlineCodes)) |-> HintFlightNo(SelectSeq(t.fns, InAirlineCodes)[ix])]
        fare_by_flight == FareByFlight(fn_positions, t.amounts)
        HasFare(e) == e.fare > 0
        with_fare == SelectSeq(fare_by_flight, HasFare)
        global_fare == _extract_fare_from_segment(t.amounts)
        first_fare == IF fn_positions # <<>>
                      THEN (IF with_fare # <<>> THEN with_fare[1].fare ELSE -1)
                      ELSE global_fare
    IN  [all_flight_numbers |-> found_flights,
         flight_number |-> IF found_flights # <<>> THEN found_flights[1] ELSE FN_BLANK,
         airline |-> IF found_flights # <<>> /\ found_flights[1].code \in AIRLINE_CODES
                     THEN AirlineName(found_flights[1].code) ELSE BLANK,
         all_airports |-> ordered_airports,
         departure_airport |-> IF ordered_airports # <<>> THEN dep_code ELSE BLANK,
         arrival_airport |-> IF ordered_airports # <<>> THEN arr_code ELSE BLANK,
         departure_city |-> IF ordered_airports # <<>> THEN AirportCity(dep_code) ELSE BLANK,
         arrival_city |-> IF ordered_airports # <<>> THEN AirportCity(arr_code) ELSE BLANK,
         departure_time |-> IF Len(t.times) >= 2 THEN t.times[1] ELSE NO_TIME,
         arrival_time |-> IF Len(t.times) >= 2 THEN ArrivalTimeHint(t.times) ELSE NO_TIME,
         all_dates |-> valid_dates,
         duration |-> IF t.durs # <<>> THEN t.durs[1] ELSE DUR_NA,
         fare_by_flight |-> fare_by_flight,
         saver_fare |-> IF first_fare > 0 THEN Fare("int", first_fare) ELSE FARE_NULL,
         baggage |-> t.baggage,
         stops |-> t.stops]

-----------------------------------------------------------------------------
(* FlightPostProcessor.process, step by step.  The operators are total;    *)
(* process_raises tells when the Python code raises instead of returning.  *)

\* step 1: date resolution
ResolveFlightDate(flight, hints, t, year) ==
    [flight EXCEPT !.departure_date = ResolveDate(@, hints.all_dates, t.dates, year)]

\* step 2 with the multi-flight rule in both modes: hints only fill blanks
FixAirportsFillOnly(flight, hints, is_multi_flight) ==
    LET FillBlank(v, hint) == IF Upper(v) \in {BLANK, NA} /\ Truthy(hint) THEN hint ELSE v
    IN  IF hints.all_airports # <<>>
        THEN [flight EXCEPT !.departure_airport = FillBlank(@, hints.departure_airport),
                            !.arrival_airport   = FillBlank(@, hints.arrival_airport)]
        ELSE flight

\* step 2: airport code fixing
FixAirports(flight, hints, is_multi_flight) ==
    LET found_codes == hints.all_airports
        Override(v, hint) == IF Truthy(hint) THEN hint ELSE v
        FillBlank(v, hint) == IF Upper(v) \in {BLANK, NA} /\ Truthy(hint) THEN hint ELSE v
    IN  IF found_codes # <<>> /\ ~is_multi_flight
        THEN [flight EXCEPT !.departure_airport = Override(@, hints.departure_airport),
                            !.arrival_airport   = Override(@, hints.arrival_airport)]
        ELSE IF found_codes # <<>> /\ is_multi_flight
        THEN [flight EXCEPT !.departure_airport = FillBlank(@, hints.departure_airport),
                            !.arrival_airport   = FillBlank(@, hints.arrival_airport)]
        ELSE flight

\* upper().strip(), then 'N/A' for a code that is not in AIRPORT_CODES
ValidateCode(v) ==
    LET code == Upper(v)
    IN  IF code \notin {BLANK, NA} THEN (IF is_valid(code) THEN code ELSE NA) ELSE v

\* step 3: validate airports against the mappings, clear an arrival equal
\* to the departure
ValidateAirports(flight) ==
    LET dep == ValidateCode(flight.departure_airport)
        arr == ValidateCode(flight.arrival_airport)
    IN  IF dep # NA /\ arr # NA /\ dep = arr
        THEN [flight EXCEPT !.departure_airport = dep, !.arrival_airport = NA,
                            !.arrival_city = NA]
        ELSE [flight EXCEPT !.departure_airport = dep, !.arrival_airport = arr]

\* step 4 with the multi-flight rule in both modes: only airline is filled
FillAirlineOnly(flight, hints, is_multi_flight) ==
    [flight EXCEPT !.airline = IF MissingStr(@) /\ hints.airline # BLANK
                                THEN hints.airline ELSE @]

\* step 4: fill missing fields from the hints; in multi-flight mode only
\* airline is not a per-flight field
FillFromHints(flight, hints, is_multi_flight) ==
    LET FillStr(v, hint) == IF MissingStr(v) /\ hint # BLANK THEN hint ELSE v
        FillTime(v, hint) == IF v < 0 /\ hint # NO_TIME THEN hint ELSE v
        a == [flight EXCEPT !.airline = FillStr(@, hints.airline)]
    IN  IF is_multi_flight THEN a
        ELSE [a EXCEPT
                !.flight_number = IF @.k \in {"null", "blank", "na"}
                                     /\ hints.flight_number # FN_BLANK
                                  THEN hints.flight_number ELSE @,
                !.departure_airport = FillStr(@, hints.departure_airport),
                !.departure_city    = FillStr(@, hints.departure_city),
                !.arrival_airport   = FillStr(@, hints.arrival_airport),
                !.arrival_city      = FillStr(@, hints.arrival_city),
                !.departure_time    = FillTime(@, hints.departure_time),
                !.arrival_time      = FillTime(@, hints.arrival_time),
                !.duration   = IF @ = DUR_NA /\ hints.duration # DUR_NA
                               THEN hints.duration ELSE @,
                !.stops      = IF @ = STOPS_NA /\ hints.stops # STOPS_NA
                               THEN hints.stops ELSE @,
                !.baggage    = FillStr(@, hints.baggage),
                !.saver_fare = IF FareBlank(@) /\ hints.saver_fare # FARE_NULL
                               THEN hints.saver_fare ELSE @]

\* step 5: city names from the mappings
CityNames(flight) ==
    LET Norm(v) == IF Truthy(v) /\ v # NA THEN Upper(v) ELSE v
        dep == Norm(flight.departure_airport)
        arr == Norm(flight.arrival_airport)
    IN  [flight EXCEPT
            !.departure_airport = dep, !.arrival_airport = arr,
            !.departure_city = IF dep \in AIRPORT_CODES THEN AirportCity(dep) ELSE @,
            !.arrival_city   = IF arr \in AIRPORT_CODES THEN AirportCity(arr) ELSE @]

PlaceholderNums == {"1234", "5678", "9012"}

\* any(x in fn for x in [...]) or len(fn) < 3, on str(flight_number).upper()
IsPlaceholderFn(fn) ==
    \/ fn.k \in {"blank", "nonstr"}
    \/ fn.k = "fn" /\ fn.num \in PlaceholderNums

SegFixFn(seg, i, reg_flight_nums) ==
    IF IsPlaceholderFn(seg.flight_number) /\ i <= Len(reg_flight_nums)
    THEN reg_flight_nums[i] ELSE seg.flight_number

\* step A of the segment loop: the first segment's departure is overridden
\* by the hint unless the hint equals that segment's arrival
SegStepA(seg, i, hints, is_multi_flight) ==
    LET hint_dep == hints.departure_airport
    IN  IF i = 1 /\ hints.all_airports # <<>> /\ ~is_multi_flight
           /\ Truthy(hint_dep)
           /\ hint_dep # Upper(seg.departure_airport)
           /\ hint_dep # Upper(seg.arrival_airport)
        THEN hint_dep ELSE seg.departure_airport

RECURSIVE ProcessSegments(_, _, _, _, _, _)
\* step 6 over the first n segments: the processed segments, the running
\* current_cumulative_days and layover_cities
ProcessSegments(segments, n, flight_date, hints, is_multi_flight, travel) ==
    IF n = 0 THEN [segs |-> <<>>, cum |-> 0, layover_cities |-> <<>>]
    ELSE
    LET before == ProcessSegments(segments, n - 1, flight_date, hints, is_multi_flight, travel)
        seg    == segments[n]
        depB   == ValidateCode(SegStepA(seg, n, hints, is_multi_flight))
        arrB   == ValidateCode(seg.arrival_airport)
        same   == depB # NA /\ arrB # NA /\ depB = arrB
        s_arr  == IF same THEN NA ELSE arrB
        fn1    == SegFixFn(seg, n, hints.all_flight_numbers)
        named  == fn1.k = "fn"
        seg_dep_ap == Upper(depB)
        seg_arr_ap == Upper(s_arr)
        prev_arr_time == IF n > 1 THEN before.segs[n - 1].arrival_time ELSE NO_TIME
        days_between ==
            IF n > 1 /\ parse_time_ok(prev_arr_time) /\ parse_time_ok(seg.departure_time)
               /\ seg.departure_time < prev_arr_time
            THEN 1 ELSE 0
        layover == IF n > 1
                   THEN calculate_layover(prev_arr_time, seg.departure_time, days_between)
                   ELSE seg.layover_duration
        extra_days == IF n > 1 /\ layover # DUR_NA /\ layover.h >= 24
                      THEN layover.h \div 24 ELSE 0
        cum_dep == before.cum + extra_days + days_between
        duration == IF Len(segments) = Len(travel) THEN travel[n]
                    ELSE DurationCalculator_calculate(seg.departure_time, seg.arrival_time,
                                                      seg_dep_ap, seg_arr_ap, 0, TRUE)
        days_offset == DayOffsetCalculator_calculate(seg.departure_time, seg.arrival_time,
                                                     duration, seg_dep_ap, seg_arr_ap)
        done == [seg EXCEPT
                  !.departure_airport = depB,
                  !.arrival_airport   = s_arr,
                  !.departure_date = IF @.k \in {"null", "empty", "na"} THEN flight_date ELSE @,
                  !.flight_number  = IF named THEN NormalizeFlightNo(fn1) ELSE fn1,
                  !.airline = IF named /\ MissingStr(@)
                                 /\ fn1.code \in TwoLetterCodes \cap AIRLINE_CODES
                              THEN AirlineName(fn1.code) ELSE @,
                  !.layover_duration = layover,
                  !.accumulated_dep_days = cum_dep,
                  !.duration = duration,
                  !.days_offset = days_offset,
                  !.accumulated_arr_days = cum_dep + days_offset,
                  !.departure_city = IF seg_dep_ap \in AIRPORT_CODES
                                     THEN AirportCity(seg_dep_ap) ELSE @,
                  !.arrival_city = IF seg_arr_ap \in AIRPORT_CODES
                                   THEN AirportCity(seg_arr_ap)
                                   ELSE IF same THEN NA ELSE @,
                  !.layover_city = IF n > 1 /\ layover # DUR_NA
                                   THEN AirportCity(seg_dep_ap) ELSE @]
    IN  [segs |-> Append(before.segs, done),
         cum  |-> cum_dep + days_offset,
         layover_cities |-> IF n > 1 THEN Append(before.layover_cities, seg_dep_ap)
                            ELSE before.layover_cities]

\* a step 7 that stores the processed segments and leaves the top level alone
KeepTopLevel(flight, res) == [flight EXCEPT !.segments = res.segs]

\* step 7: the top-level flight is rebuilt from its segments
RebuildFromSegments(flight, res) ==
    IF res.segs = <<>> THEN flight
    ELSE LET first_seg == res.segs[1]
             last_seg  == Last(res.segs)
             n_stops   == Len(res.segs) - 1
             total     == last_seg.accumulated_arr_days
         IN  [flight EXCEPT
                !.segments = res.segs,
                !.departure_airport = first_seg.departure_airport,
                !.departure_city    = first_seg.departure_city,
                !.departure_time    = first_seg.departure_time,
                !.arrival_airport   = last_seg.arrival_airport,
                !.arrival_city      = last_seg.arrival_city,
                !.arrival_time      = last_seg.arrival_time,
                !.days_offset       = total,
                !.arrival_next_day  = total > 0,
                !.stops = IF n_stops > 0
                          THEN Stops(n_stops, [ix \in 1..Len(Dedup(res.layover_cities)) |-> AirportCity(Dedup(res.layover_cities)[ix])])
                          ELSE NON_STOP,
                !.duration = DurationCalculator_calculate(
                                 first_seg.departure_time, last_seg.arrival_time,
                                 first_seg.departure_airport, last_seg.arrival_airport,
                                 total, FALSE)]

\* fare_map.get(fn_key), then the comparison without spaces; -1 for None
LookupFare(fare_by_flight, fn) ==
    LET Same(e) == fn.k = "fn" /\ e.fn.code = fn.code /\ e.fn.num = fn.num
        hits == SelectSeq(fare_by_flight, Same)
    IN  IF hits # <<>> THEN hits[1].fare ELSE -1

\* step 8: fare and flight number clean-up
CleanFareAndNumber(flight, hints, is_multi_flight) ==
    LET matched_fare == LookupFare(hints.fare_by_flight, flight.flight_number)
        rescued == IF is_multi_flight /\ FareBlank(flight.saver_fare) /\ matched_fare >= 0
                   THEN Fare("int", matched_fare) ELSE flight.saver_fare
    IN  [flight EXCEPT !.saver_fare = CleanFare(rescued),
                       !.flight_number = NormalizeFlightNo(@)]

SegRaises(seg, i, hints) ==
    \/ ~seg.obj
    \/ ~IsStr(seg.departure_airport)
    \/ ~IsStr(seg.arrival_airport)
    \/ SegFixFn(seg, i, hints.all_flight_numbers).k = "nonstr"

process_raises(flight, hints, t, is_multi_flight) ==
    LET f2 == FixAirports(flight, hints, is_multi_flight)
        f4 == FillFromHints(ValidateAirports(f2), hints, is_multi_flight)
    IN  \/ pick_best_date_raises(flight.departure_date, hints.all_dates)
        \/ /\ hints.all_airports # <<>> /\ is_multi_flight
           /\ ~IsStr(flight.departure_airport) \/ ~IsStr(flight.arrival_airport)
        \/ ~IsStr(f2.departure_airport) \/ ~IsStr(f2.arrival_airport)
        \/ ~flight.segsList
        \/ \E i \in 1..Len(flight.segments) : SegRaises(flight.segments[i], i, hints)
        \/ /\ is_multi_flight /\ FareBlank(f4.saver_fare)
           /\ f4.flight_number.k \in {"null", "nonstr"}
        \/ f4.flight_number.k = "nonstr"

process(flight, hints, t, is_multi_flight, year) ==
    LET f1 == ResolveFlightDate(flight, hints, t, year)
        f2 == FixAirports(f1, hints, is_multi_flight)
        f3 == ValidateAirports(f2)
        f4 == FillFromHints(f3, hints, is_multi_flight)
        f5 == CityNames(f4)
        segments == IF f5.segsList THEN f5.segments ELSE <<>>
        res == ProcessSegments(segments, Len(segments), f5.departure_date,
                               hints, is_multi_flight, t.travel)
        f7 == RebuildFromSegments(f5, res)
        f8 == CleanFareAndNumber(f7, hints, is_multi_flight)
    IN  Validated(f8)

-----------------------------------------------------------------------------
(* gds_parser.py.  A GDS segment line:                                     *)
(*   fmt    the one expression that matches it: "amadeus", "slash",        *)
(*          "galileo" or "generic"                                         *)
(*   code, glued, num   airline code and flight number, glued when no      *)
(*          space separates them                                           *)
(*   d, m, y   the DDMon[YY] date (y = -1: none; d = 0: a generic line     *)
(*          without a date)                                                *)
(*   da, aa, dt, at   airports and times; colon: times written HH:MM       *)
(*   nd     the explicit +N marker, 0 when absent                          *)
(*   tail   an amadeus line carrying its trailing arrival date, E-ticket   *)
(*          flag and aircraft type                                         *)

GdsLine(fmt, code, glued, num, d, m, y, da, aa, dt, at, nd, tail) ==
    [fmt |-> fmt, code |-> code, glued |-> glued, num |-> num,
     d |-> d, m |-> m, y |-> y, da |-> da, aa |-> aa, dt |-> dt, at |-> at,
     colon |-> FALSE, nd |-> nd, tail |-> tail]

GDS_MONTHS == {"JAN", "FEB", "MAR", "APR", "MAY", "JUN",
               "JUL", "AUG", "SEP", "OCT", "NOV", "DEC"}

\* the words of _FP that the model's lines may carry
_FP == {"THE", "VIA"}

_valid_airport(code) ==
    /\ code \notin _FP
    /\ code \in AIRPORT_CODES \/ code \notin GDS_MONTHS

\* datetime(...) or None
_parse_gds_date(day, month, year, ref_year) ==
    LET yr == IF year >= 0 THEN 2000 + year ELSE ref_year
    IN  IF day >= 1 /\ day <= DaysInMonth(yr, month)
        THEN [y |-> yr, m |-> month, d |-> day] ELSE NoDatetime

_build_segment(airline_code, flt_num, dep_date, dep_ap, arr_ap, dep_time, arr_time, explicit_next_day) ==
    LET days_offset == IF explicit_next_day > 0 THEN explicit_next_day
                       ELSE DayOffsetCalculator_calculate(dep_time, arr_time, DUR_NA,
                                                          dep_ap, arr_ap)
        duration == DurationCalculator_calculate(dep_time, arr_time, dep_ap, arr_ap,
                                                 days_offset, TRUE)
    IN  [Seg(dep_ap, arr_ap, dep_time, arr_time, FlightNo(airline_code, <<" ">>, flt_num))
            EXCEPT !.airline = AirlineName(airline_code),
                   !.departure_city = AirportCity(dep_ap),
                   !.arrival_city = AirportCity(arr_ap),
                   !.departure_date = FlightDate_format(dep_date),
                   !.days_offset = days_offset,
                   !.duration = duration,
                   !.layover_city = NA]

BuildLine(line, ref_year) ==
    LET day == IF line.d = 0 THEN 1 ELSE line.d
        mon == IF line.d = 0 THEN 1 ELSE line.m
    IN  _build_segment(line.code, line.num,
                       _parse_gds_date(day, mon, line.y, ref_year),
                       line.da, line.aa, line.dt, line.at, line.nd)

\* the optional tail of _RE_AMADEUS, (?:\s+[EO])?(?:\s+\d)?(?:\s+[A-Z0-9]{3})?,
\* runs into a following line that starts with E, O, a digit, or three
\* characters without a space
StartsSwallowable(line) ==
    line.glued \/ line.code \in {"EY", "6E"}

RECURSIVE AmadeusMatched(_, _)
\* whether finditer(_RE_AMADEUS) yields line i of the section
AmadeusMatched(lines, i) ==
    /\ lines[i].fmt = "amadeus"
    /\ \/ i = 1
       \/ ~(AmadeusMatched(lines, i - 1) /\ ~lines[i - 1].tail
            /\ StartsSwallowable(lines[i]))

\* _parse_amadeus / _parse_slash / _parse_galileo / _parse_generic
ParseFormat(lines, fmt, ref_year) ==
    LET idx == {i \in 1..Len(lines) :
                   /\ lines[i].fmt = fmt
                   /\ fmt = "amadeus" => AmadeusMatched(lines, i)
                   /\ _valid_airport(lines[i].da) /\ _valid_airport(lines[i].aa)}
        Kept(i) == i \in idx
        order == SelectSeq([i \in 1..Len(lines) |-> i], Kept)
        Build(i) == BuildLine(lines[i], ref_year)
    IN  [ix \in 1..Len(order) |-> Build(order[ix])]

RECURSIVE _stitch_segments(_, _)
\* over the first n segments: the stitched segments and the cumulative day count
_stitch_segments(segments, n) ==
    IF n = 0 THEN [segs |-> <<>>, cumulative |-> 0]
    ELSE LET before == _stitch_segments(segments, n - 1)
             seg    == segments[n]
             prev_arr == IF n > 1 THEN segments[n - 1].arrival_time ELSE NO_TIME
             days_between == IF n > 1 /\ parse_time_ok(prev_arr)
                                /\ parse_time_ok(seg.departure_time)
                                /\ seg.departure_time < prev_arr
                             THEN 1 ELSE 0
             cum == before.cumulative + days_between + seg.days_offset
             done == [seg EXCEPT
                        !.accumulated_dep_days = before.cumulative,
                        !.layover_duration =
                            IF n > 1 THEN calculate_layover(prev_arr, seg.departure_time,
                                                            days_between)
                            ELSE @,
                        !.layover_city = IF n > 1 THEN segments[n - 1].arrival_airport ELSE @,
                        !.accumulated_arr_days = cum]
         IN  [segs |-> Append(before.segs, done), cumulative |-> cum]

\* segments is not empty
_assemble_flight(segments) ==
    LET first == segments[1]
        last  == Last(segments)
        total_days == last.accumulated_arr_days
        n_stops == Len(segments) - 1
        DepOf(seg) == seg.departure_airport
        via == [ix \in 1..Len(SubSeq(segments, 2, Len(segments))) |-> DepOf(SubSeq(segments, 2, Len(segments))[ix])]
    IN  Validated(
          [_empty_flight EXCEPT
             !.airline = first.airline,
             !.flight_number = first.flight_number,
             !.departure_city = first.departure_city,
             !.departure_airport = first.departure_airport,
             !.departure_date = first.departure_date,
             !.departure_time = first.departure_time,
             !.arrival_city = last.arrival_city,
             !.arrival_airport = last.arrival_airport,
             !.arrival_time = last.arrival_time,
             !.arrival_next_day = total_days > 0,
             !.days_offset = total_days,
             !.duration = DurationCalculator_calculate(
                              first.departure_time, last.arrival_time,
                              first.departure_airport, last.arrival_airport,
                              total_days, FALSE),
             !.stops = IF n_stops = 0 THEN NON_STOP ELSE Stops(n_stops, via),
             !.segments = segments])

\* GDSParser._split: the sections of the text, each a list of lines
_split(t) ==
    IF t.divided /\ Len(t.gds) > 1 THEN [i \in 1..Len(t.gds) |-> <<t.gds[i]>>]
    ELSE <<t.gds>>

ParseSection(lines, ref_year) ==
    LET a == ParseFormat(lines, "amadeus", ref_year)
        b == ParseFormat(lines, "slash", ref_year)
        c == ParseFormat(lines, "galileo", ref_year)
        d == ParseFormat(lines, "generic", ref_year)
    IN  IF a # <<>> THEN a ELSE IF b # <<>> THEN b ELSE IF c # <<>> THEN c ELSE d

RECURSIVE ParseSections(_, _, _)
ParseSections(sections, n, ref_year) ==
    IF n = 0 THEN <<>>
    ELSE LET front == ParseSections(sections, n - 1, ref_year)
             raw == ParseSection(sections[n], ref_year)
         IN  IF raw = <<>> THEN front
             ELSE Append(front, _assemble_flight(_stitch_segments(raw, Len(raw)).segs))

GDSParser_parse(t, ref_year) ==
    LET sections == _split(t)
        flights  == ParseSections(sections, Len(sections), ref_year)
        WithExtras(flight) ==
            [flight EXCEPT
               !.baggage = IF t.baggage # BLANK THEN t.baggage ELSE @,
               !.saver_fare = IF t.amounts # <<>> THEN Fare("int", t.amounts[1].amt) ELSE @]
    IN  [ix \in 1..Len(flights) |-> WithExtras(flights[ix])]


\* _RE_GDS_TIME finds a four-digit time: in the prose or in a segment line
\* whose times are written without a colon
HasGdsTime(t) == t.gtime \/ (\E ix \in 1..Len(t.gds) : ~t.gds[ix].colon)

\* _RE_GDS_DATE finds a DDMon date standing as a word of its own
HasGdsDate(t) ==
    \/ t.gdate
    \/ \E i \in 1..Len(t.dates) : t.dates[i].sp = "gluednoyr"
    \/ \E ix \in 1..Len(t.gds) :
          \/ t.gds[ix].d > 0 /\ t.gds[ix].y < 0
          \/ t.gds[ix].fmt = "amadeus" /\ t.gds[ix].tail

\* _RE_STATUS is a plain raw string, so \d{{1,2}} asks for a digit, one or two
\* opening braces and a closing brace: HK1 as written in a booking never matches
HasStatus(t) == t.status = "braced"

HasAmadeus(t) == \E ix \in 1..Len(t.gds) : t.gds[ix].fmt = "amadeus"

HasSlash(t) == \E ix \in 1..Len(t.gds) : t.gds[ix].fmt = "slash"

HasBkgClass(t) ==
    \E ix \in 1..Len(t.gds) :
        t.gds[ix].fmt \in {"amadeus", "galileo"} /\ t.gds[ix].code \in TwoLetterCodes

\* the detection score of GDSParser.is_gds
GdsScore(t) ==
    (IF HasGdsTime(t) THEN 2 ELSE 0) + (IF HasGdsDate(t) THEN 2 ELSE 0)
    + (IF HasStatus(t) THEN 3 ELSE 0) + (IF HasAmadeus(t) THEN 4 ELSE 0)
    + (IF HasSlash(t) THEN 4 ELSE 0) + (IF HasBkgClass(t) THEN 2 ELSE 0)

\* a detector that takes any signal at all for GDS
AnySignalIsGds(t) == GdsScore(t) >= 2

\* GDSParser.is_gds
is_gds(t) == GdsScore(t) >= 4

\* a parser without the GDS fast path
NoGdsPath(t, ref_year) == <<>>

\* FlightParser._try_gds: the GDS flights, <<>> for None
_try_gds(t, ref_year) ==
    IF ~is_gds(t) THEN <<>> ELSE GDSParser_parse(t, ref_year)

-----------------------------------------------------------------------------
(* FlightParser: the external extractor's responses and what _call_llm /   *)
(* _call_llm_list make of them.                                            *)

\* a response: "timeout", "non200", "garbage" (content without parseable
\* JSON), "object" (one JSON object) or "array" (a JSON array of items);
\* an item is a flight object, or not an object at all
Item(obj, f) == [obj |-> obj, f |-> f]
Resp(k, items) == [k |-> k, items |-> items]
NoResp == Resp("none", <<>>)

IsObject(item) == item.obj

\* _call_llm: the dict between the first '{' and the last '}', <<>> for None
_call_llm(r) ==
    LET objs == SelectSeq(r.items, IsObject)
    IN  IF r.k \in {"object", "array"} /\ Len(objs) = 1 THEN <<objs[1].f>> ELSE <<>>

\* an element of a flight's "segments" array read as a flight by
\* extract_multiple_flights: item.get(key, "N/A") for the keys a segment
\* carries, the defaults for the keys it lacks
SegAsFlight(seg) ==
    [_empty_flight EXCEPT
       !.airline = IF seg.airline = BLANK THEN NA ELSE seg.airline,
       !.flight_number = IF seg.flight_number = FN_BLANK THEN FN_NA ELSE seg.flight_number,
       !.departure_city = IF seg.departure_city = BLANK THEN NA ELSE seg.departure_city,
       !.departure_airport = IF seg.departure_airport = BLANK THEN NA ELSE seg.departure_airport,
       !.departure_date = IF seg.departure_date = DATE_NULL THEN DATE_NA ELSE seg.departure_date,
       !.departure_time = IF seg.departure_time = NO_TIME THEN NA_TIME ELSE seg.departure_time,
       !.arrival_city = IF seg.arrival_city = BLANK THEN NA ELSE seg.arrival_city,
       !.arrival_airport = IF seg.arrival_airport = BLANK THEN NA ELSE seg.arrival_airport,
       !.arrival_time = IF seg.arrival_time = NO_TIME THEN NA_TIME ELSE seg.arrival_time,
       !.duration = seg.duration]

\* content[content.find('['):content.rfind(']') + 1] of a bare flight object
\* whose only array is "segments": that array
InnerArray(f) == [i \in 1..Len(f.segments) |-> Item(f.segments[i].obj, SegAsFlight(f.segments[i]))]

\* _call_llm_list: the list, <<>> for None or an empty list (both "not data").
\* Attempt 1 parses the text between the first '[' and the last ']' and
\* returns it when it is a list; only a response without such a list reaches
\* attempt 2, which wraps a bare object
_call_llm_list(r) ==
    IF r.k = "array" THEN r.items
    ELSE IF r.k = "object"
    THEN IF r.items[1].f.segsList THEN InnerArray(r.items[1].f) ELSE r.items
    ELSE <<>>

\* extract_flight: required fields that are None, "" or [] become "N/A"
\* (saver_fare: None)
RequiredFields(f) ==
    LET DefStr(v) == IF v \in {NULL, BLANK} THEN NA ELSE v
        DefTime(v) == IF v = NO_TIME THEN NA_TIME ELSE v
    IN  [f EXCEPT
           !.airline = DefStr(@),
           !.flight_number = IF @.k \in {"null", "blank"} THEN FN_NA ELSE @,
           !.departure_city = DefStr(@), !.departure_airport = DefStr(@),
           !.departure_date = IF @.k \in {"null", "empty"} THEN DATE_NA ELSE @,
           !.departure_time = DefTime(@),
           !.arrival_city = DefStr(@), !.arrival_airport = DefStr(@),
           !.arrival_time = DefTime(@),
           !.baggage = DefStr(@)]

ItemFlight(item) == item.f

-----------------------------------------------------------------------------
(* Inputs of the model *)

Tok30Jan26    == DateTok("dmon", 30, 1, 26, FALSE, FALSE, FALSE, FALSE)
Tok5Jan       == DateTok("dmon", 5, 1, -1, FALSE, FALSE, FALSE, FALSE)
Tok30thJanuary2026 == DateTok("dmon", 30, 1, 2026, FALSE, TRUE, TRUE, FALSE)
TokJan30      == DateTok("mond", 30, 1, -1, FALSE, FALSE, FALSE, FALSE)
Tok30JAN26    == DateTok("glued", 30, 1, 26, FALSE, FALSE, FALSE, FALSE)
Tok30JAN      == DateTok("gluednoyr", 30, 1, -1, FALSE, FALSE, FALSE, FALSE)
TokIso        == DateTok("iso", 30, 1, 2026, FALSE, FALSE, FALSE, FALSE)
TokNumeric    == DateTok("num", 30, 1, 2026, FALSE, FALSE, FALSE, FALSE)
Tok29Feb26    == DateTok("dmon", 29, 2, 26, FALSE, FALSE, FALSE, FALSE)
TokMeta       == DateTok("dmon", 12, 3, 26, FALSE, FALSE, FALSE, TRUE)

DateToks == {Tok30Jan26, Tok5Jan, Tok30thJanuary2026, TokJan30, Tok30JAN26, Tok30JAN,
             TokIso, TokNumeric, Tok29Feb26, TokMeta}

\* dates the external extractor may answer
LlmDates == {DATE_NA, DATE_NONSTR,
             DateStr(30, 1, 26, FALSE, FALSE, "abbr"),
             DateStr(5, 1, -1, FALSE, FALSE, "abbr"),
             DateStr(30, 1, 2026, FALSE, FALSE, "full"),
             DateStr(30, 1, 2026, FALSE, FALSE, "iso"),
             DateStr(15, 8, 26, FALSE, FALSE, "abbr")}

Years == {2026, 2027}

T2315 == 23 * 60 + 15
T0615 == 6 * 60 + 15
T0800 == 8 * 60
T0900 == 9 * 60
T1100 == 11 * 60
T1130 == 11 * 60 + 30
T1000 == 10 * 60
T1300 == 13 * 60
T0200 == 2 * 60
T0300 == 3 * 60

SegDelSin == Seg("DEL", "SIN", T2315, T0615, FlightNo("AI", <<"-">>, "302"))
SegSinAuh == Seg("SIN", "AUH", T0800, T1130, FN_NA)
SegSinDel == Seg("SIN", "DEL", T1000, T1300, FlightNo("AI", <<>>, "303"))
SegAuhDoh == Seg("AUH", "DOH", T0200, T0300, FN_BLANK)
SegDelDel == Seg("DEL", "DEL", T1000, T1300, FN_NA)
SegNaSin  == Seg(NA, "SIN", NA_TIME, NA_TIME, FN_NA)
SegZzzSin == Seg("ZZZ", "sin", T1000, T1300, FN_NA)
SegNullDep == Seg(NULL, "SIN", T1000, T1300, FN_NA)

LlmSegs == {SegDelSin, SegSinAuh, SegSinDel, SegAuhDoh, SegDelDel, SegNaSin,
            SegZzzSin, SegNullDep, NonObjectSeg}

FnTok(code, num) == [code |-> code, num |-> num]

\* "AI 302 ... 10:00 ... 12:00 ... Rs 4,200", with the airports named
ProseText(airports) ==
    [NoText EXCEPT !.airports = airports,
                   !.times = <<T1000, 12 * 60>>,
                   !.fns = <<FnTok("AI", "302")>>,
                   !.amounts = <<Amount(1, "nomarker", 4200)>>]

LlmFlight(dep, arr, fn, fare, segments) ==
    [_empty_flight EXCEPT !.departure_airport = dep, !.arrival_airport = arr,
                          !.flight_number = fn, !.saver_fare = fare,
                          !.segments = segments]

\* a flight for which the extractor also answered the derived fields: at the
\* top level when top, in every segment when seg
WithSupplied(flight, top, seg) ==
    LET SupSeg(sg) == [sg EXCEPT !.duration = [h |-> 9, m |-> 0], !.days_offset = 2,
                                 !.layover_duration = [h |-> 7, m |-> 0]]
        f1 == IF top
              THEN [flight EXCEPT !.duration = [h |-> 9, m |-> 0], !.days_offset = 2,
                                  !.arrival_next_day = TRUE, !.stops = Stops(3, <<>>)]
              ELSE flight
    IN  IF seg
        THEN [f1 EXCEPT !.segments = [ix \in 1..Len(@) |-> SupSeg(@[ix])]]
        ELSE f1

\* AI 302 Y 05JAN 2 DELSIN HK1 2315 0615
LineDelSin == GdsLine("amadeus", "AI", FALSE, "302", 5, 1, -1, "DEL", "SIN", T2315, T0615, 0, FALSE)
\* EY 156 E 06JAN 6 SINAUH DK1 0800 1130 06JAN E 0 789
LineSinAuh == GdsLine("amadeus", "EY", FALSE, "156", 6, 1, -1, "SIN", "AUH", T0800, T1130, 0, TRUE)
\* AI 304 Y 07JAN26 2 AUHDOH HK1 0200 0300 07JAN E 0 77W
LineAuhDoh == GdsLine("amadeus", "AI", FALSE, "304", 7, 1, 26, "AUH", "DOH", T0200, T0300, 0, TRUE)
\* AI 306 Y 05JAN 2 DELDEL HK1 1000 1300 05JAN E 0 77W
LineDelDel == GdsLine("amadeus", "AI", FALSE, "306", 5, 1, -1, "DEL", "DEL", T1000, T1300, 0, TRUE)
\* AI 308 Y 05JAN 2 JANSIN HK1 1000 1300 05JAN E 0 77W
LineJanSin == GdsLine("amadeus", "AI", FALSE, "308", 5, 1, -1, "JAN", "SIN", T1000, T1300, 0, TRUE)
\* 1. AI 305 Y 06JAN SIN DEL 1000 1300
LineGalileo == GdsLine("galileo", "AI", FALSE, "305", 6, 1, -1, "SIN", "DEL", T1000, T1300, 0, FALSE)
\* AI307/Y/29FEB/SINAUH/2315/0615+1
LineSlash == GdsLine("slash", "AI", TRUE, "307", 29, 2, -1, "SIN", "AUH", T2315, T0615, 1, FALSE)

GdsLines == {LineDelSin, LineSinAuh, LineAuhDoh, LineDelDel, LineJanSin, LineGalileo, LineSlash}

TopPairs == {<<"DEL", "SIN">>, <<"SIN", "SIN">>, <<"ZZZ", NA>>}

\* "AI---302" with a fare without digits; nothing given
FnFares == {<<FlightNo("AI", <<"-", "-", "-">>, "302"), Fare("str", -1)>>,
            <<FlightNo("AI", <<"-">>, "302"), FARE_NULL>>,
            <<FN_NA, FARE_NULL>>}

ProcAirports == {<<>>, <<"DEL">>, <<"DEL", "SIN">>}

\* the amounts of one flight's block: a lock fee and the fare; the fare
\* and a total; lock fee and fare before a per-adult marker, a total after
\* it; a lock fee before the marker and the fare after it
FareLayouts(part, fare) ==
    {<<Amount(part, "nomarker", 179), Amount(part, "nomarker", fare)>>,
     <<Amount(part, "nomarker", fare), Amount(part, "nomarker", 2 * fare)>>,
     <<Amount(part, "before", 179), Amount(part, "before", fare),
       Amount(part, "after", 2 * fare)>>,
     <<Amount(part, "before", 179), Amount(part, "after", fare)>>}

\* "AI 302 DEL ... <amounts>  6E 201 SIN ... <amounts>"
FareTexts ==
    {[NoText EXCEPT !.fns = <<FnTok("AI", "302"), FnTok("6E", "201")>>,
                    !.airports = <<"DEL", "SIN">>,
                    !.amounts = a \o b] :
        a \in FareLayouts(1, 4200), b \in FareLayouts(2, 5100)}

\* the flights the extractor answers for such a text: either flight, with
\* the fare left blank or with the lock fee as its fare
FareFlights ==
    {LlmFlight(p[1], p[2], FlightNo(p[3], <<" ">>, p[4]), fare, <<>>) :
        p \in {<<"DEL", "SIN", "AI", "302">>, <<"SIN", "AUH", "6E", "201">>},
        fare \in {FARE_NULL, Fare("int", 179)}}

\* free text naming two airports, a date, a duration, stops and baggage
ProseFull ==
    [ProseText(<<"DEL", "SIN">>) EXCEPT
        !.dates = <<Tok30Jan26>>, !.travel = <<[h |-> 2, m |-> 30]>>,
        !.stops = NON_STOP, !.baggage = "15kg"]

\* "1120", "18APR", "HK1 1120", "DK2 18APR", "HK1{}X 1120": prose holding a
\* four-digit time, a DDMon date, a booking status
SignalTexts ==
    {[NoText EXCEPT !.gtime = TRUE], [NoText EXCEPT !.gdate = TRUE],
     [NoText EXCEPT !.gtime = TRUE, !.gdate = TRUE],
     [NoText EXCEPT !.gtime = TRUE, !.status = "plain"],
     [NoText EXCEPT !.gdate = TRUE, !.status = "plain"],
     [NoText EXCEPT !.status = "plain"],
     [NoText EXCEPT !.gtime = TRUE, !.status = "braced"]}

\* "Fare $, only": a currency symbol followed by a separator only
ProseNoDigits == [NoText EXCEPT !.amounts = <<Amount(0, "nomarker", NO_DIGITS)>>]

\* "dep 10:00, arr 11:30, dep 13:00": three clock times
ProseThreeTimes == [ProseText(<<"DEL", "SIN">>) EXCEPT !.times = <<T1000, T1130, T1300>>]

OrchProse == {NoText, ProseFull, ProseText(<<"DEL">>), ProseNoDigits, ProseThreeTimes} \cup SignalTexts

OrchGds == {<<>>, <<LineDelSin>>, <<LineDelSin, LineAuhDoh>>, <<LineJanSin>>}

GoodFlight ==
    [LlmFlight("DEL", "SIN", FlightNo("AI", <<"-">>, "302"), Fare("int", 4200), <<>>)
        EXCEPT !.departure_time = T1000, !.arrival_time = T1300,
               !.departure_date = DateStr(30, 1, 26, FALSE, FALSE, "abbr")]

NullFlight ==
    [_empty_flight EXCEPT !.airline = NULL, !.flight_number = FN_NULL,
                          !.departure_airport = NULL, !.arrival_airport = NULL,
                          !.departure_date = DATE_NULL,
                          !.departure_time = NO_TIME, !.arrival_time = NO_TIME]

LlmFlights == {GoodFlight,
               [GoodFlight EXCEPT !.segments = <<SegDelSin, SegSinAuh>>],
               [GoodFlight EXCEPT !.segments = <<NonObjectSeg>>],
               [GoodFlight EXCEPT !.segments = <<SegNullDep>>],
               [GoodFlight EXCEPT !.segsList = FALSE],
               [GoodFlight EXCEPT !.departure_airport = NONSTR],
               [GoodFlight EXCEPT !.departure_date = DATE_NONSTR],
               NullFlight}

Responses ==
    {Resp("timeout", <<>>), Resp("non200", <<>>), Resp("garbage", <<>>)}
    \cup {Resp("object", <<Item(TRUE, f)>>) : f \in LlmFlights}
    \cup {Resp("array", items) :
            items \in {<<>>, <<Item(FALSE, _empty_flight)>>,
                       <<Item(TRUE, GoodFlight)>>,
                       <<Item(TRUE, GoodFlight), Item(TRUE, NullFlight)>>}}

\* requests one call may issue before the model stops counting
MaxCalls == 3

-----------------------------------------------------------------------------
(* The calls FlightParser.extract_flight and extract_multiple_flights      *)

Idle ==
    /\ regexHints = NoHints /\ response = NoResp /\ data = <<>>
    /\ out = <<>> /\ out2 = <<>> /\ calls = 0

Init ==
    /\ pc = "start"
    /\ entry \in {"single", "multi"}
    /\ multi = (entry = "multi")
    /\ text \in {[p EXCEPT !.gds = g] : p \in OrchProse, g \in OrchGds}
    /\ nowYear = 2026
    /\ Idle

\* if gds_flights: return gds_flights[0] (extract_flight) or gds_flights
ReturnGds(gds_flights) ==
    IF gds_flights # <<>>
    THEN /\ out' = IF multi THEN gds_flights ELSE <<gds_flights[1]>>
         /\ pc' = "done"
    ELSE /\ pc' = "hints"
         /\ UNCHANGED out

\* gds_flights = self._try_gds(raw_text); if gds_flights: return ...
TryGds ==
    /\ pc = "start"
    /\ ReturnGds(_try_gds(text, nowYear))
    /\ UNCHANGED <<entry, text, nowYear, regexHints, response, data, multi, out2, calls>>

\* processed_text = preprocessor.process(raw_text); hints = extract(processed_text)
ExtractHints ==
    /\ pc = "hints"
    /\ IF HintExtractor_extract_raises(TextPreprocessor_process(text))
       THEN pc' = "raised" /\ UNCHANGED regexHints
       ELSE /\ regexHints' = HintExtractor_extract(TextPreprocessor_process(text))
            /\ pc' = "request"
    /\ UNCHANGED <<entry, text, nowYear, response, data, multi, out, out2, calls>>

\* _call_llm_raw: one request, answered or failed
Request ==
    /\ pc = "request"
    /\ calls < MaxCalls
    /\ \E r \in Responses : response' = r
    /\ calls' = calls + 1
    /\ pc' = "respond"
    /\ UNCHANGED <<entry, text, nowYear, regexHints, data, multi, out, out2>>

\* extract_flight after data = self._call_llm(...)
HandleSingle ==
    /\ pc = "respond" /\ ~multi
    /\ LET d == _call_llm(response)
       IN  data' = IF d = <<>> THEN <<_empty_flight>> ELSE <<RequiredFields(d[1])>>
    /\ pc' = "process"
    /\ UNCHANGED <<entry, text, nowYear, regexHints, response, multi, out, out2, calls>>

\* where extract_multiple_flights goes when _call_llm_list gave no data:
\* into extract_flight(raw_text)
AfterNoData == "start"

\* a fallback that asks for a list again
FallbackToList == TRUE

\* the mode of that fallback: extract_flight asks for one object
FallbackMulti == FALSE

\* extract_multiple_flights after data = self._call_llm_list(...)
HandleMulti ==
    /\ pc = "respond" /\ multi
    /\ LET d == _call_llm_list(response)
       IN  IF d = <<>>
           THEN /\ multi' = FallbackMulti
                /\ pc' = AfterNoData
                /\ UNCHANGED data
           ELSE IF \E i \in 1..Len(d) : ~d[i].obj
           THEN /\ pc' = "raised"      \* item.get on something that is no dict
                /\ UNCHANGED <<data, multi>>
           ELSE /\ data' = [ix \in 1..Len(d) |-> ItemFlight(d[ix])]
                /\ pc' = "process"
                /\ UNCHANGED multi
    /\ UNCHANGED <<entry, text, nowYear, regexHints, response, out, out2, calls>>

\* the text process is given: the preprocessed text inside FlightParser
ProcessText == IF entry \in {"single", "multi"} THEN TextPreprocessor_process(text) ELSE text

ProcessAll(flights) ==
    [i \in 1..Len(flights) |-> process(flights[i], regexHints, ProcessText, multi, nowYear)]

AnyRaises(flights) ==
    \E i \in 1..Len(flights) : process_raises(flights[i], regexHints, ProcessText, multi)

\* FlightPostProcessor.process on each flight of data
Process ==
    /\ pc = "process"
    /\ IF AnyRaises(data)
       THEN pc' = "raised" /\ UNCHANGED out
       ELSE /\ out' = ProcessAll(data)
            /\ pc' = IF entry = "process" THEN "returned" ELSE "done"
    /\ UNCHANGED <<entry, text, nowYear, regexHints, response, data, multi, out2, calls>>

Next == TryGds \/ ExtractHints \/ Request \/ HandleSingle \/ HandleMulti \/ Process

Spec == Init /\ [][Next]_vars

-----------------------------------------------------------------------------
(* Direct calls of FlightPostProcessor.process (once, and again on its own *)
(* result) and of GDSParser.parse                                          *)

InitProc ==
    /\ \/ /\ entry = "process" /\ pc = "process"
          /\ text \in {[NoText EXCEPT !.dates = ds] : ds \in SeqsUpTo(DateToks, MaxDates)}
          /\ data \in {<<[_empty_flight EXCEPT !.departure_date = d]>> : d \in LlmDates}
          /\ multi \in BOOLEAN
          /\ nowYear \in Years
       \/ /\ entry = "process" /\ pc = "process"
          /\ text \in {ProseText(a) : a \in ProcAirports}
          /\ data \in {<<LlmFlight(p[1], p[2], q[1], q[2], segs)>> :
                          p \in TopPairs, q \in FnFares, segs \in SeqsUpTo(LlmSegs, MaxSegs)}
          /\ multi \in BOOLEAN
          /\ nowYear = 2026
       \/ /\ entry = "process" /\ pc = "process"
          /\ text \in FareTexts
          /\ data \in {<<f>> : f \in FareFlights}
          /\ multi = TRUE
          /\ nowYear = 2026
       \/ /\ entry = "process" /\ pc = "process"
          /\ text \in {NoText, ProseFull}
          /\ data \in {<<WithSupplied([GoodFlight EXCEPT !.segments = segs], top, seg)>> :
                          segs \in {<<>>, <<SegDelSin>>, <<SegDelSin, SegSinAuh>>},
                          top \in BOOLEAN, seg \in BOOLEAN}
          /\ multi \in BOOLEAN
          /\ nowYear = 2026
       \/ /\ entry = "gds" /\ pc = "parse"
          /\ text \in {[NoText EXCEPT !.gds = ls, !.divided = dv] :
                          ls \in SeqsUpTo(GdsLines, MaxSegs), dv \in BOOLEAN}
          /\ data = <<>>
          /\ multi = FALSE
          /\ nowYear = 2026
    /\ regexHints = HintExtractor_extract(text)
    /\ response = NoResp /\ out = <<>> /\ out2 = <<>> /\ calls = 0

\* process(process(f, h, t, m), h, t, m)
Reprocess ==
    /\ pc = "returned"
    /\ IF AnyRaises(out)
       THEN pc' = "raised" /\ UNCHANGED out2
       ELSE /\ out2' = ProcessAll(out)
            /\ pc' = "done"
    /\ UNCHANGED <<entry, text, nowYear, regexHints, response, data, multi, out, calls>>

\* GDSParser.parse(text)
ParseGds ==
    /\ pc = "parse"
    /\ out' = GDSParser_parse(text, nowYear)
    /\ pc' = "done"
    /\ UNCHANGED <<entry, text, nowYear, regexHints, response, data, multi, out2, calls>>

NextProc == Process \/ Reprocess \/ ParseGds

SpecProc == InitProc /\ [][NextProc]_vars

-----------------------------------------------------------------------------
(* Direct calls of DurationCalculator.calculate                            *)

CalcArgs(dep_time, arr_time, dep_airport, arr_airport, days_offset, check_ultra_long) ==
    [dep_time |-> dep_time, arr_time |-> arr_time, dep_airport |-> dep_airport,
     arr_airport |-> arr_airport, days_offset |-> days_offset,
     check_ultra_long |-> check_ultra_long]

\* the largest days_offset a caller passes
MaxOffset == 2

CalcTimes == {T0900, T1000, T1100, T1130, T2315, T0615, NA_TIME, NO_TIME}

CalcAirports == {"DEL", "SIN", "DOH", NA}

InitCalc ==
    /\ entry = "calculate" /\ pc = "calculate"
    /\ data \in {<<CalcArgs(dt, at, da, aa, off, ul)>> :
                    dt \in CalcTimes, at \in CalcTimes, da \in CalcAirports,
                    aa \in CalcAirports, off \in 0..MaxOffset, ul \in BOOLEAN}
    /\ text = NoText /\ multi = FALSE /\ nowYear = 2026
    /\ regexHints = HintExtractor_extract(text)
    /\ response = NoResp /\ out = <<>> /\ out2 = <<>> /\ calls = 0

\* DurationCalculator.calculate(dep_time, arr_time, dep_airport, arr_airport,
\*                              days_offset, None, check_ultra_long)
Calculate ==
    /\ pc = "calculate"
    /\ out' = <<DurationCalculator_calculate(
                    data[1].dep_time, data[1].arr_time, data[1].dep_airport,
                    data[1].arr_airport, data[1].days_offset, data[1].check_ultra_long)>>
    /\ pc' = "calculated"
    /\ UNCHANGED <<entry, text, nowYear, regexHints, response, data, multi, out2, calls>>

NextCalc == Calculate

SpecCalc == InitCalc /\ [][NextCalc]_vars

-----------------------------------------------------------------------------
(* Direct calls of TextPreprocessor.process, and of it on its own result   *)

PrePairs == {<<"DEL", "SIN">>, <<"AUH", "DOH">>, <<"XYZ", "ABC">>}

PreWords == {"DEL", "AUH"}

PreMarkers == {"none", "glued", "clean"}

\* raw texts: up to two glued pairs, up to two bare airport words, a day
\* marker, a travel time
PreTexts ==
    {[NoText EXCEPT !.glued = g, !.abbrevs = w, !.airports = w, !.plus = p, !.travel = tr] :
        g \in SeqsUpTo(PrePairs, 2), w \in SeqsUpTo(PreWords, 2), p \in PreMarkers,
        tr \in {<<>>, <<[h |-> 2, m |-> 30]>>}}

InitPre ==
    /\ entry = "preprocess" /\ pc = "preprocess"
    /\ text \in PreTexts
    /\ multi = FALSE /\ nowYear = 2026
    /\ regexHints = NoHints /\ response = NoResp /\ data = <<>>
    /\ out = <<>> /\ out2 = <<>> /\ calls = 0

\* once == TextPreprocessor.process(raw_text)
Preprocess ==
    /\ pc = "preprocess"
    /\ out' = <<TextPreprocessor_process(text)>>
    /\ pc' = "preprocessed"
    /\ UNCHANGED <<entry, text, nowYear, regexHints, response, data, multi, out2, calls>>

\* twice == TextPreprocessor.process(once)
PreprocessAgain ==
    /\ pc = "preprocessed"
    /\ out2' = <<TextPreprocessor_process(out[1])>>
    /\ pc' = "repreprocessed"
    /\ UNCHANGED <<entry, text, nowYear, regexHints, response, data, multi, out, calls>>

NextPre == Preprocess \/ PreprocessAgain

SpecPre == InitPre /\ [][NextPre]_vars

-----------------------------------------------------------------------------
(* Properties of the calls                                                 *)

\* the flights a finished call of process or GDSParser.parse returned
Returned == IF pc \in {"returned", "done"} THEN out ELSE <<>>

ProcessReturned == entry = "process" /\ pc \in {"returned", "done"}

\* two date strings name the same day, month and two-digit year
SameDate(a, b) ==
    /\ a.k = b.k
    /\ a.k = "date" => a.d = b.d /\ a.m = b.m /\ a.y % 100 = b.y % 100

\* both codes are given and not "N/A"
BothCodes(dep, arr) == dep \notin {NA, NULL, BLANK, NONSTR} /\ arr \notin {NA, NULL, BLANK, NONSTR}

Distinct(x) ==
    BothCodes(x.departure_airport, x.arrival_airport)
        => x.departure_airport # x.arrival_airport

Chained(segments) ==
    \A i \in 2..Len(segments) :
        segments[i].departure_airport = segments[i - 1].arrival_airport

ChainedWhereGiven(segments) ==
    \A i \in 2..Len(segments) :
        BothCodes(segments[i].departure_airport, segments[i - 1].arrival_airport)
            => segments[i].departure_airport = segments[i - 1].arrival_airport

\* C1: extract_flight and extract_multiple_flights never raise, whatever the
\* text and whatever the external extractor answered.
C1_NeverRaises == pc # "raised"

\* C2: every flight process returns with a departure_date other than "N/A"
\* has FlightDate.is_in_text(departure_date, original_text) true.
C2_DateIsInText ==
    ProcessReturned =>
        \A i \in 1..Len(out) :
            out[i].departure_date # DATE_NA => is_in_text(out[i].departure_date, text.dates)

\* C3: in every flight returned by GDSParser.parse or by process, and in
\* every segment of it, departure and arrival airport differ whenever both
\* are not "N/A".
C3_DistinctAirports ==
    \A i \in 1..Len(Returned) :
        /\ Distinct(Returned[i])
        /\ \A j \in 1..Len(Returned[i].segments) : Distinct(Returned[i].segments[j])

\* C4: process is idempotent: processing its own result again, with the same
\* hints, text and mode, gives that result in every field.
C4_Idempotent == (entry = "process" /\ pc = "done") => out2 = out

\* C5 as stated: in every multi-segment flight returned by GDSParser.parse or
\* by process, each segment departs from the airport the previous one
\* arrived at.
C5_SegmentsChained ==
    \A i \in 1..Len(Returned) : Chained(Returned[i].segments)

\* C5: every multi-segment flight that GDSParser.parse or process returns
\* with is_valid true has each segment depart from the airport the previous
\* one arrived at, wherever both codes are given; a break in the route is
\* reported in parse_errors and not repaired.
C5_ChainedWhenValid ==
    \A i \in 1..Len(Returned) :
        Returned[i].is_valid => ChainedWhereGiven(Returned[i].segments)

C5_Witness ==
    /\ pc = "returned"
    /\ \E i \in 1..Len(out) :
          /\ out[i].is_valid
          /\ Len(out[i].segments) = 2
          /\ out[i].segments[1].arrival_airport = "SIN"
          /\ out[i].segments[2].departure_airport = "SIN"

\* C6: the departure_date process assigns is the first regex-found date when
\* the hints carry one, else the extractor's date if it is calendar-valid and
\* verified in the text, else "N/A"; its year is one written in the text, and
\* it is "N/A" when the text has no date token.
C6_DateSelection ==
    ProcessReturned =>
        LET d   == out[1].departure_date
            llm == data[1].departure_date
        IN  /\ SameDate(d, IF regexHints.all_dates # <<>> THEN regexHints.all_dates[1]
                           ELSE IF validate_against_text(llm, text.dates) THEN llm
                           ELSE DATE_NA)
            /\ text.dates = <<>> => d = DATE_NA
            /\ d # DATE_NA =>
                  \E j \in 1..Len(text.dates) :
                      /\ text.dates[j].d = d.d /\ text.dates[j].m = d.m
                      /\ text.dates[j].y >= 0 /\ text.dates[j].y % 100 = d.y

\* C7 as stated: whenever GDSParser.is_gds(raw_text) is true, no request goes
\* to the external extractor.
C7_GdsNeverRequests == is_gds(text) => calls = 0

\* C7: whenever is_gds(raw_text) is true and the GDS parser yields at least
\* one flight, no request goes to the external extractor and the result is
\* the GDS parser's flights (the first of them for extract_flight).
C7_GdsFlightsNeverRequest ==
    (is_gds(text) /\ GDSParser_parse(text, nowYear) # <<>>) =>
        /\ calls = 0
        /\ pc \in {"start", "done"}
        /\ pc = "done" =>
              out = IF entry = "multi" THEN GDSParser_parse(text, nowYear)
                    ELSE <<GDSParser_parse(text, nowYear)[1]>>

C7_Witness ==
    /\ pc = "done" /\ is_gds(text) /\ calls = 0
    /\ Len(out) >= 1 /\ out[1].departure_airport = "DEL"

\* C8 as stated: every call of extract_flight and of extract_multiple_flights
\* issues at most one request.
C8_AtMostOneRequest == calls <= 1

\* C8: extract_flight issues at most one request; extract_multiple_flights
\* issues at most two, the second only as the single-flight request of its
\* fallback after the list request yielded no data; a failed single-flight
\* request is never repeated.
C8_RequestBound ==
    /\ entry = "single" => calls <= 1
    /\ entry = "multi" => calls <= 2
    /\ calls = 2 => ~multi
    /\ calls >= (IF entry = "multi" THEN 2 ELSE 1) => pc \notin {"start", "hints", "request"}

C8_Witness ==
    /\ entry = "multi" /\ calls = 2 /\ pc = "done"
    /\ _call_llm(response) = <<>>

\* C9: when the external extractor yields no data in extract_flight, the
\* result is the empty flight processed with the hints: no segments, each of
\* airline, flight_number, the airports, the times, duration, stops, baggage
\* and saver_fare takes the hint's value where a hint exists and stays
\* "N/A" (fare: null) where none does, and is_valid and parse_errors are
\* FlightValidator's.
C9_FallbackTakesHints ==
    (pc = "done" /\ ~multi /\ calls >= 1 /\ _call_llm(response) = <<>>) =>
        LET f == out[1]
            h == regexHints
        IN  /\ Len(out) = 1
            /\ f.segments = <<>>
            /\ f.airline = IF h.airline # BLANK THEN h.airline ELSE NA
            /\ f.flight_number = IF h.flight_number # FN_BLANK
                                 THEN NormalizeFlightNo(h.flight_number) ELSE FN_NA
            /\ f.departure_airport = IF h.departure_airport # BLANK
                                     THEN h.departure_airport ELSE NA
            /\ f.arrival_airport = IF h.arrival_airport # BLANK
                                   THEN h.arrival_airport ELSE NA
            /\ f.departure_time = IF h.departure_time # NO_TIME
                                  THEN h.departure_time ELSE NA_TIME
            /\ f.arrival_time = IF h.arrival_time # NO_TIME
                                THEN h.arrival_time ELSE NA_TIME
            /\ f.duration = h.duration
            /\ f.stops = h.stops
            /\ f.baggage = IF h.baggage # BLANK THEN h.baggage ELSE NA
            /\ f.saver_fare = h.saver_fare
            /\ f.parse_errors = FlightValidator_validate(f)
            /\ f.is_valid = (f.parse_errors = <<>>)

C9_Witness ==
    /\ pc = "done" /\ ~multi /\ calls >= 1 /\ _call_llm(response) = <<>>
    /\ regexHints.departure_airport = "DEL" /\ out[1].departure_airport = "DEL"
    /\ regexHints.flight_number # FN_BLANK /\ out[1].flight_number # FN_NA
    /\ regexHints.duration # DUR_NA /\ out[1].duration = regexHints.duration

Populated(v) == v \notin {NA, NULL, BLANK, NONSTR}

\* the frame of the top-level fields in multi-flight mode: a populated
\* departure_airport or arrival_airport of a flight without segments is kept
\* or cleared to "N/A", never replaced by the hint; flight_number, the times,
\* baggage, duration and stops are the extractor's (rebuilt from the
\* extractor's segments when there are any); saver_fare differs from the
\* extractor's cleaned fare only when the extractor left it blank, and is
\* then the fare_by_flight entry of the flight's own flight number
TopLevelFrame(f, g, hints) ==
    LET own == LookupFare(hints.fare_by_flight, g.flight_number)
    IN  /\ f.flight_number = NormalizeFlightNo(g.flight_number)
        /\ f.baggage = g.baggage
        /\ f.saver_fare # CleanFare(g.saver_fare) =>
              FareBlank(g.saver_fare) /\ own >= 0 /\ f.saver_fare = Fare("int", own)
        /\ IF g.segments = <<>>
           THEN /\ Populated(g.departure_airport) =>
                      f.departure_airport \in {Upper(g.departure_airport), NA}
                /\ Populated(g.arrival_airport) =>
                      f.arrival_airport \in {Upper(g.arrival_airport), NA}
                /\ f.departure_time = g.departure_time
                /\ f.arrival_time = g.arrival_time
                /\ f.duration = g.duration
                /\ f.stops = g.stops
           ELSE /\ f.departure_time = g.segments[1].departure_time
                /\ f.arrival_time = Last(g.segments).arrival_time
                /\ f.departure_airport \in {Upper(g.segments[1].departure_airport), NA}
                /\ f.arrival_airport \in {Upper(Last(g.segments).arrival_airport), NA}

\* a flight number of the returned segment is the extractor's for that segment
SegmentNumberKept(fseg, gseg) ==
    fseg.flight_number.k = "fn" =>
        /\ gseg.flight_number.k = "fn"
        /\ gseg.flight_number.code = fseg.flight_number.code
        /\ gseg.flight_number.num = fseg.flight_number.num

\* the top-level part of C11 alone, which the code keeps
C11_TopLevelFrame ==
    (ProcessReturned /\ multi) => TopLevelFrame(out[1], data[1], regexHints)

\* C11: in multi-flight mode process never replaces a populated airport by a
\* hint value and never copies the block-wide hints for flight_number, times,
\* saver_fare, baggage, duration and stops into a flight, at the top level
\* or in a segment of it; saver_fare may only come from the fare_by_flight
\* entry of the flight's own number, when the extractor left it blank.
C11_NoHintBleedInMultiMode ==
    (ProcessReturned /\ multi) =>
        /\ TopLevelFrame(out[1], data[1], regexHints)
        /\ \A j \in 1..Len(out[1].segments) :
              SegmentNumberKept(out[1].segments[j], data[1].segments[j])

\* the amounts of the text that stand in the stretch of its p-th flight number
OwnAmounts(t, p) ==
    LET InPart(a) == a.part = p
    IN  SelectSeq(t.amounts, InPart)

\* the fare C12 attributes to the p-th flight number: the amount of at least
\* FARE_MIN_THRESHOLD before the per-adult marker of its stretch if there is
\* one, else the first such amount of the stretch; -1 when there is none
OwnFare(t, p) ==
    LET IsBig(a) == a.amt >= FARE_MIN_THRESHOLD
        IsBefore(a) == a.pos = "before"
        big == SelectSeq(OwnAmounts(t, p), IsBig)
        before == SelectSeq(big, IsBefore)
    IN  IF before # <<>> THEN Last(before).amt
        ELSE IF big # <<>> THEN big[1].amt ELSE -1

\* the stretch of the text a flight number introduces (0: none)
BlockOf(t, fn) ==
    IF \E p \in 1..Len(t.fns) : t.fns[p].code = fn.code /\ t.fns[p].num = fn.num
    THEN CHOOSE p \in 1..Len(t.fns) : t.fns[p].code = fn.code /\ t.fns[p].num = fn.num
    ELSE 0

\* C12: for a text of several flight blocks, each introduced by its flight
\* number and holding its fare among noise amounts, the fare attributed to
\* each flight number is the amount of its own block that stands before the
\* per-adult marker, else the first amount of the block at or above the
\* threshold; and the flight returned in multi-flight mode carries the fare
\* of its own flight number as saver_fare.
C12_OwnFarePerFlight ==
    (ProcessReturned /\ Len(text.fns) >= 2) =>
        /\ \A i \in 1..Len(regexHints.fare_by_flight) :
              LET e == regexHints.fare_by_flight[i]
              IN  e.fare = OwnFare(text, BlockOf(text, e.fn))
        /\ multi =>
              out[1].saver_fare =
                  Fare("int", OwnFare(text, BlockOf(text, out[1].flight_number)))

\* the detection signals a text raises
GdsSignals(t) ==
    {s \in {"time", "date", "status", "amadeus", "slash", "bkg"} :
        \/ s = "time" /\ HasGdsTime(t)
        \/ s = "date" /\ HasGdsDate(t)
        \/ s = "status" /\ HasStatus(t)
        \/ s = "amadeus" /\ HasAmadeus(t)
        \/ s = "slash" /\ HasSlash(t)
        \/ s = "bkg" /\ HasBkgClass(t)}

\* the summed weights of a set of signals
SignalWeight(sig) ==
    (IF "time" \in sig THEN 2 ELSE 0) + (IF "date" \in sig THEN 2 ELSE 0)
    + (IF "status" \in sig THEN 3 ELSE 0) + (IF "amadeus" \in sig THEN 4 ELSE 0)
    + (IF "slash" \in sig THEN 4 ELSE 0) + (IF "bkg" \in sig THEN 2 ELSE 0)

C14_StatusPlusWeakIsGds ==
    (text.status # "none" /\ (HasGdsTime(text) \/ HasGdsDate(text))) => is_gds(text)

\* a finished call of DurationCalculator.calculate
Calculated == entry = "calculate" /\ pc = "calculated"

\* the minutes C15 names: arrival clock minus departure clock, the arrival
\* shifted by days_offset days, or by one day when days_offset is 0 and the
\* arrival clock is the earlier one, minus the difference of the UTC offsets
ElapsedMinutes(a) ==
    LET shift == IF a.days_offset > 0 THEN a.days_offset
                 ELSE IF a.arr_time < a.dep_time THEN 1 ELSE 0
    IN  (a.arr_time + shift * MinutesPerDay - a.dep_time)
        - (TzOf(a.arr_airport) - TzOf(a.dep_airport))

Unparsable(a) == a.dep_time < 0 \/ a.arr_time < 0

\* C15 as stated: calculate returns those minutes as hours and minutes, and
\* "N/A" for an unparsable time.
C15_ElapsedMinutes ==
    Calculated =>
        out[1] = IF Unparsable(data[1]) THEN DUR_NA
                 ELSE FormatDuration(ElapsedMinutes(data[1]))

\* C15: calculate returns "N/A" for an unparsable time; else the minutes
\* above, less one day when check_ultra_long is set and they exceed one day
\* but not two, plus one day when they are negative, as hours and minutes.
\* With equal UTC offsets, no day offset and the arrival not earlier it is the
\* plain clock difference (09:00 to 11:30: 2h 30m); 23:15 at UTC+5:30 to
\* 06:15 the next day at UTC+8 gives 4h 30m.
C15_ElapsedMinutesAdjusted ==
    Calculated =>
        LET a == data[1]
            e == ElapsedMinutes(a)
        IN  /\ Unparsable(a) => out[1] = DUR_NA
            /\ ~Unparsable(a) =>
                  out[1] = FormatDuration(
                      IF a.check_ultra_long /\ e > MinutesPerDay /\ e < 2 * MinutesPerDay
                      THEN e - MinutesPerDay
                      ELSE IF e < 0 THEN e + MinutesPerDay ELSE e)
            /\ (~Unparsable(a) /\ TzOf(a.arr_airport) = TzOf(a.dep_airport)
                  /\ a.days_offset = 0 /\ a.arr_time >= a.dep_time)
                  => out[1] = FormatDuration(a.arr_time - a.dep_time)
            /\ (a.dep_time = T2315 /\ a.arr_time = T0615 /\ a.dep_airport = "DEL"
                  /\ a.arr_airport = "SIN" /\ a.days_offset <= 1)
                  => out[1] = [h |-> 4, m |-> 30]

\* 23:15 DEL to 06:15 SIN the next day was calculated
C15_Witness ==
    /\ Calculated /\ data[1].dep_time = T2315 /\ data[1].arr_time = T0615
    /\ data[1].dep_airport = "DEL" /\ data[1].arr_airport = "SIN"
    /\ data[1].days_offset = 1 /\ out[1] = [h |-> 4, m |-> 30]

\* a finished call of GDSParser.parse on a text of one section
ParsedOneSection == entry = "gds" /\ pc = "done" /\ Len(_split(text)) = 1

\* the segment lines of a section that parse: those of the first grammar, in
\* the order amadeus, slash, galileo, generic, that has a line with two
\* valid airports
ParsableLines(lines) ==
    LET Valid(l) == _valid_airport(l.da) /\ _valid_airport(l.aa)
        Has(fmt) == \E i \in 1..Len(lines) : lines[i].fmt = fmt /\ Valid(lines[i])
        grammar == IF Has("amadeus") THEN "amadeus"
                   ELSE IF Has("slash") THEN "slash"
                   ELSE IF Has("galileo") THEN "galileo" ELSE "generic"
        Parses(l) == l.fmt = grammar /\ Valid(l)
    IN  SelectSeq(lines, Parses)

\* C16: GDSParser.parse of one section with n >= 1 parsable segment lines
\* returns one flight whose segments are those n legs in text order; stops is
\* "Non Stop" for n = 1, else n-1 stops via the connection airports, none
\* named twice; every segment after the first has a layover duration; a leg
\* leaving late and arriving early on the clock without a marker has
\* days_offset = 1.
C16_OneFlightPerSection ==
    LET legs == ParsableLines(text.gds)
        n == Len(legs)
    IN  (ParsedOneSection /\ n >= 1) =>
        /\ Len(out) = 1
        /\ Len(out[1].segments) = n
        /\ \A i \in 1..n :
              LET seg == out[1].segments[i]
              IN  /\ seg.departure_airport = legs[i].da
                  /\ seg.arrival_airport = legs[i].aa
                  /\ seg.departure_time = legs[i].dt
                  /\ seg.arrival_time = legs[i].at
                  /\ i > 1 => seg.layover_duration # DUR_NA
                  /\ (legs[i].nd = 0 /\ legs[i].dt = T2315 /\ legs[i].at = T0615)
                        => seg.days_offset = 1
        /\ n = 1 => out[1].stops = NON_STOP
        /\ n > 1 =>
              /\ out[1].stops.n = n - 1
              /\ Len(out[1].stops.via) = n - 1
              /\ \A i, j \in 1..(n - 1) :
                    i # j => out[1].stops.via[i] # out[1].stops.via[j]
              /\ \A i \in 1..(n - 1) :
                    out[1].stops.via[i] \in {legs[i].aa, legs[i + 1].da}

\* the flight with the derived fields as the extractor leaves them out
StripSupplied(flight) ==
    LET Strip(sg) == [sg EXCEPT !.duration = DUR_NA, !.days_offset = 0,
                                !.layover_duration = DUR_NA]
    IN  [flight EXCEPT !.duration = DUR_NA, !.days_offset = 0,
                       !.arrival_next_day = FALSE, !.stops = STOPS_NA,
                       !.segments = [ix \in 1..Len(@) |-> Strip(@[ix])]]

\* the derived fields of a flight and of its segments
DerivedFields(flight) ==
    [duration |-> flight.duration, days_offset |-> flight.days_offset,
     arrival_next_day |-> flight.arrival_next_day, stops |-> flight.stops,
     segments |-> [ix \in 1..Len(flight.segments) |->
                      <<flight.segments[ix].duration, flight.segments[ix].days_offset,
                        flight.segments[ix].layover_duration>>]]

\* the extractor answered a derived field of the flight handed to process
SuppliedGiven == data # <<>> /\ data[1].segsList /\ StripSupplied(data[1]) # data[1]

\* C17: the duration, days_offset, arrival_next_day, stops and
\* layover_duration of the flight process returns, and of its segments, are
\* those it returns for the same flight with these fields left out by the
\* extractor.
C17_DerivedIgnoreSupplied ==
    (ProcessReturned /\ SuppliedGiven) =>
        DerivedFields(out[1]) =
            DerivedFields(process(StripSupplied(data[1]), regexHints, text, multi, nowYear))

\* step 3 of process finds the top-level departure equal to the arrival
TopConflictFound ==
    LET f2 == FixAirports(data[1], regexHints, multi)
        dep == ValidateCode(f2.departure_airport)
        arr == ValidateCode(f2.arrival_airport)
    IN  dep # NA /\ arr # NA /\ dep = arr

\* step C of the segment loop finds segment i departing from where it arrives
SegConflictFound(i) ==
    LET seg == data[1].segments[i]
        dep == ValidateCode(SegStepA(seg, i, regexHints, multi))
        arr == ValidateCode(seg.arrival_airport)
    IN  dep # NA /\ arr # NA /\ dep = arr

Flagged(flight) == ~flight.is_valid /\ flight.parse_errors # <<>>

\* C18, the top level: when process finds the top-level departure airport
\* equal to the arrival airport, the returned flight has its arrival airport
\* cleared to "N/A" and is flagged invalid with a parse error.
C18_TopConflictCleared ==
    (ProcessReturned /\ TopConflictFound) =>
        (out[1].arrival_airport = NA /\ Flagged(out[1]))

\* C18, the segments: when process finds a segment's departure airport equal
\* to its arrival airport, the returned flight has that segment's arrival
\* airport cleared to "N/A" and is flagged invalid with a parse error.
C18_SegConflictCleared ==
    ProcessReturned =>
        \A i \in 1..Len(out[1].segments) :
            SegConflictFound(i) =>
                (out[1].segments[i].arrival_airport = NA /\ Flagged(out[1]))

\* C18: whenever process finds a departure airport equal to the arrival
\* airport, at the top level or in any segment, the returned flight has that
\* arrival cleared to "N/A", never replaced by another code, and is flagged:
\* is_valid = false with a parse error.
C18_ConflictClearedAndFlagged == C18_TopConflictCleared /\ C18_SegConflictCleared

\* a flight is the view of its segments that step 7 and _assemble_flight build
DerivedView(flight) ==
    LET first_seg == flight.segments[1]
        last_seg == Last(flight.segments)
    IN  /\ flight.departure_airport = first_seg.departure_airport
        /\ flight.departure_city = first_seg.departure_city
        /\ flight.departure_time = first_seg.departure_time
        /\ flight.arrival_airport = last_seg.arrival_airport
        /\ flight.arrival_city = last_seg.arrival_city
        /\ flight.arrival_time = last_seg.arrival_time
        /\ flight.days_offset = last_seg.accumulated_arr_days
        /\ flight.arrival_next_day = (flight.days_offset > 0)

\* C19: every flight with at least one segment returned by GDSParser.parse or
\* by process has the departure airport, city and time of its first segment,
\* the arrival airport, city and time of its last segment, the last
\* segment's accumulated_arr_days as days_offset, and arrival_next_day true
\* exactly when days_offset > 0.
C19_DerivedView ==
    /\ \A i \in 1..Len(Returned) :
          Returned[i].segments # <<>> => DerivedView(Returned[i])
    /\ (entry = "process" /\ pc = "done") =>
          \A i \in 1..Len(out2) : out2[i].segments # <<>> => DerivedView(out2[i])

\* process returned a flight of two segments that arrives on a later day and
\* whose extractor-supplied top level named other airports than its segments
C19_Witness ==
    /\ ProcessReturned
    /\ Len(out[1].segments) = 2
    /\ out[1].arrival_next_day
    /\ Upper(data[1].departure_airport) # out[1].departure_airport
    /\ DerivedView(out[1])

\* the day counters C20 describes for a stitched list of segments
DayCountersChain(segs) ==
    /\ segs[1].accumulated_dep_days = 0
    /\ \A i \in 1..Len(segs) :
          segs[i].accumulated_arr_days = segs[i].accumulated_dep_days + segs[i].days_offset
    /\ \A i \in 2..Len(segs) :
          /\ segs[i].accumulated_dep_days =
                segs[i - 1].accumulated_arr_days
                + (IF segs[i].departure_time < segs[i - 1].arrival_time THEN 1 ELSE 0)
          /\ segs[i].accumulated_dep_days >= segs[i - 1].accumulated_dep_days
          /\ segs[i].accumulated_arr_days >= segs[i - 1].accumulated_arr_days

\* C20: after _stitch_segments the first segment has accumulated_dep_days = 0,
\* every segment has accumulated_arr_days = accumulated_dep_days +
\* days_offset, a later segment's accumulated_dep_days is the previous
\* segment's accumulated_arr_days plus one when it departs at an earlier
\* clock time than the previous segment arrives, and the counters never
\* decrease along the list.
C20_DayCounters ==
    (entry = "gds" /\ pc = "done") =>
        \A i \in 1..Len(out) : DayCountersChain(out[i].segments)

\* the whole days on the ground before line i of a section: from the arrival
\* of line i-1, on its date plus the days its segment takes, to the
\* departure of line i on its own date (lines of the same month)
LayoverWholeDays(lines, segs, i) ==
    LET minutes == (lines[i].d - lines[i - 1].d - segs[i - 1].days_offset) * MinutesPerDay
                   + lines[i].dt - lines[i - 1].at
    IN  IF lines[i].m = lines[i - 1].m /\ lines[i].d > 0 /\ lines[i - 1].d > 0 /\ minutes > 0
        THEN minutes \div MinutesPerDay ELSE 0

\* no layover that stitching computes reaches 24 hours: the day correction
\* of the segment loop (extra_days) is never applied
C21_LayoverUnderOneDay ==
    \A f \in 1..Len(Returned) :
        \A i \in 2..Len(Returned[f].segments) :
            LET layover == Returned[f].segments[i].layover_duration
            IN  layover = DUR_NA \/ layover.h < 24

\* C21: in GDS stitching a layover of 24 hours or more raises the cumulative
\* day counter by the whole days it holds, besides the overnight day, and the
\* correction takes effect: for two consecutive lines whose dates and times
\* put whole days between them, the layover is computed as 24 hours or more
\* and the day counter of the later segment has grown by those days.
C21_LayoverDayCorrection ==
    (ParsedOneSection /\ Len(out) = 1 /\ Len(out[1].segments) = Len(text.gds)) =>
        \A i \in 2..Len(text.gds) :
            LET segs == out[1].segments
                days == LayoverWholeDays(text.gds, segs, i)
            IN  days >= 1 =>
                   /\ segs[i].layover_duration # DUR_NA
                   /\ segs[i].layover_duration.h >= 24
                   /\ segs[i].accumulated_arr_days - segs[i].days_offset
                         >= segs[i - 1].accumulated_arr_days + days

\* segment i of a flight departs from another airport than segment i-1
\* arrived at, both codes given
GapAt(flight, i) ==
    /\ BothCodes(flight.segments[i].departure_airport, flight.segments[i - 1].arrival_airport)
    /\ flight.segments[i].departure_airport # flight.segments[i - 1].arrival_airport

\* the flight is invalid and its parse errors name the gap before segment i
GapReported(flight, i) ==
    /\ ~flight.is_valid
    /\ \E k \in 1..Len(flight.parse_errors) : flight.parse_errors[k] = Err("gap in route", i)

\* the two airports of segment i are those of the segment handed in
SegAirportsKept(seg, given_dep, given_arr) ==
    seg.departure_airport = Upper(given_dep) /\ seg.arrival_airport = Upper(given_arr)

\* C22 with every airport of the two segments compared with what was handed
\* to process
C22_GapSegmentsUntouched ==
    ProcessReturned =>
        \A i \in 2..Len(out[1].segments) :
            GapAt(out[1], i) =>
                /\ SegAirportsKept(out[1].segments[i], data[1].segments[i].departure_airport,
                                   data[1].segments[i].arrival_airport)
                /\ SegAirportsKept(out[1].segments[i - 1], data[1].segments[i - 1].departure_airport,
                                   data[1].segments[i - 1].arrival_airport)

\* C22: a flight returned by GDSParser.parse or process in which a segment
\* departs from another airport than the previous segment arrived at, both
\* codes given, has is_valid = false and a parse error naming the gap, and
\* the two airports at the gap are the ones handed in: the previous
\* segment's arrival and this segment's departure are not repaired.
C22_GapReportedNotRepaired ==
    /\ \A f \in 1..Len(Returned) :
          \A i \in 2..Len(Returned[f].segments) :
              GapAt(Returned[f], i) => GapReported(Returned[f], i)
    /\ ProcessReturned =>
          \A i \in 2..Len(out[1].segments) :
              GapAt(out[1], i) =>
                  /\ out[1].segments[i].departure_airport
                        = Upper(data[1].segments[i].departure_airport)
                  /\ out[1].segments[i - 1].arrival_airport
                        = Upper(data[1].segments[i - 1].arrival_airport)
    /\ (ParsedOneSection /\ Len(out) = 1 /\ Len(out[1].segments) = Len(text.gds)) =>
          \A i \in 1..Len(text.gds) :
              SegAirportsKept(out[1].segments[i], text.gds[i].da, text.gds[i].aa)

\* process returned a flight AUH -> DOH after DEL -> SIN, reported and as given
C22_Witness ==
    /\ ProcessReturned
    /\ Len(out[1].segments) = 2
    /\ GapAt(out[1], 2) /\ GapReported(out[1], 2)
    /\ out[1].segments[1].arrival_airport = "SIN"
    /\ out[1].segments[2].departure_airport = "AUH"

\* one of two values is present while the other is missing or "N/A"
HalfGivenStr(a, b) == (Populated(a) /\ ~Populated(b)) \/ (Populated(b) /\ ~Populated(a))

HalfGivenTime(a, b) == (a >= 0 /\ b < 0) \/ (b >= 0 /\ a < 0)

\* what C23 has a valid flight satisfy
CompleteFlight(flight) ==
    /\ Populated(flight.departure_airport) /\ Populated(flight.arrival_airport)
    /\ flight.departure_time >= 0 /\ flight.arrival_time >= 0
    /\ Len(flight.segments) > 1 =>
          \A i \in 1..Len(flight.segments) :
              /\ ~HalfGivenStr(flight.segments[i].departure_airport,
                               flight.segments[i].arrival_airport)
              /\ ~HalfGivenTime(flight.segments[i].departure_time,
                                flight.segments[i].arrival_time)

\* C23, the first half: is_valid is true exactly when the error list is empty
C23_ValidIffNoErrors ==
    \A f \in 1..Len(Returned) : Returned[f].is_valid <=> Returned[f].parse_errors = <<>>

\* C23: FlightValidator.validate gives is_valid = true exactly when its error
\* list is empty, and a valid flight has both airports and both times
\* given and not "N/A" and, with more than one segment, no segment with one
\* airport or one time present while the other is missing or "N/A".
C23_ValidMeansComplete ==
    \A f \in 1..Len(Returned) :
        /\ Returned[f].is_valid <=> Returned[f].parse_errors = <<>>
        /\ Returned[f].is_valid => CompleteFlight(Returned[f])

-----------------------------------------------------------------------------
(* C24: a bare object answered to extract_multiple_flights                 *)

\* the first answer of a multi-flight call was one bare JSON object and
\* extract_multiple_flights has acted on it
FirstAnswerBareObject ==
    entry = "multi" /\ calls = 1 /\ response.k = "object" /\ pc # "respond"

\* C24: in multi-flight mode a bare JSON object answered by the extractor is
\* taken as a one-element list holding exactly that object, also when the
\* object contains arrays: its inner array is never taken for the list of
\* flights and the answer is never treated as empty (no fallback call)
C24_BareObjectWrapped ==
    FirstAnswerBareObject => multi /\ data = <<ItemFlight(response.items[1])>>

\* C24, the part that holds: a bare object that contains no array at all
\* ("segments": null) is wrapped into a one-element list
C24_ArraylessObjectWrapped ==
    FirstAnswerBareObject /\ ~response.items[1].f.segsList
        => multi /\ data = <<ItemFlight(response.items[1])>>

-----------------------------------------------------------------------------
(* C25: the GDS path against FlightPostProcessor.process on the same       *)
(* segments                                                                *)

\* the facts of a flight the GDS path returned, as a flight handed to
\* process: airports, clock times, dates and flight numbers, nothing derived
SameFacts(g) ==
    [LlmFlight(g.departure_airport, g.arrival_airport, g.flight_number, FARE_NULL,
               [ix \in 1..Len(g.segments) |->
                   [Seg(g.segments[ix].departure_airport, g.segments[ix].arrival_airport,
                        g.segments[ix].departure_time, g.segments[ix].arrival_time,
                        g.segments[ix].flight_number)
                      EXCEPT !.departure_date = g.segments[ix].departure_date]])
        EXCEPT !.departure_date = g.departure_date,
               !.departure_time = g.departure_time, !.arrival_time = g.arrival_time]

\* what process computes from those facts (no hints, single-flight mode)
ProcessOfSame(g) == process(SameFacts(g), NoHints, NoText, FALSE, nowYear)

\* the numbers of segment i of two flights agree, but for accumulated_dep_days
SegNumbersAgree(a, b, i) ==
    /\ a.segments[i].duration = b.segments[i].duration
    /\ a.segments[i].days_offset = b.segments[i].days_offset
    /\ a.segments[i].layover_duration = b.segments[i].layover_duration
    /\ a.segments[i].accumulated_arr_days = b.segments[i].accumulated_arr_days

FlightNumbersAgree(a, b) ==
    /\ Len(a.segments) = Len(b.segments)
    /\ a.days_offset = b.days_offset
    /\ a.duration = b.duration
    /\ \A i \in 1..Len(a.segments) : SegNumbersAgree(a, b, i)

DepDaysAgree(a, b) ==
    /\ Len(a.segments) = Len(b.segments)
    /\ \A i \in 1..Len(a.segments) :
          a.segments[i].accumulated_dep_days = b.segments[i].accumulated_dep_days

\* one section of lines without '+N' markers, each between two distinct
\* airports, gave one flight with one segment per line
ParsedSameSegments ==
    /\ ParsedOneSection /\ Len(out) = 1
    /\ Len(out[1].segments) = Len(text.gds)
    /\ \A i \in 1..Len(text.gds) : text.gds[i].nd = 0 /\ text.gds[i].da # text.gds[i].aa

\* C25: for the same ordered list of segments (airports, clock times, dates,
\* no '+N' markers) the GDS path and FlightPostProcessor.process give the
\* same per-segment duration, days_offset, layover_duration,
\* accumulated_dep_days and accumulated_arr_days and the same flight-level
\* days_offset and total duration
C25_SameNumbers ==
    ParsedSameSegments =>
        /\ FlightNumbersAgree(out[1], ProcessOfSame(out[1]))
        /\ DepDaysAgree(out[1], ProcessOfSame(out[1]))

\* C25, the part that holds: all those numbers but accumulated_dep_days agree
C25_SameNumbersButDepDays ==
    ParsedSameSegments => FlightNumbersAgree(out[1], ProcessOfSame(out[1]))

-----------------------------------------------------------------------------
(* C26: HintExtractor.extract returns for every text                       *)

\* the call ended in an exception before any request was made: raised by
\* HintExtractor.extract
ExtractRaised == entry \in {"single", "multi"} /\ pc = "raised" /\ calls = 0

\* C26: HintExtractor.extract returns a hints bag and never raises, for
\* every input text, also one where a currency symbol is followed by
\* separators only ("$,", "₹ ,") and one without airports, times, dates or
\* flight numbers
C26_ExtractNeverRaises == ~ExtractRaised

\* C26, the part that holds: extract raises only on a text that holds a
\* currency symbol followed by separators without a digit
C26_RaisesOnlyWithoutDigits ==
    ExtractRaised => \E i \in 1..Len(text.amounts) : text.amounts[i].amt = NO_DIGITS

-----------------------------------------------------------------------------
(* C27: TextPreprocessor.process on its own result                         *)

\* C27: TextPreprocessor.process is idempotent, process(process(x)) =
\* process(x), also for glued airport pairs ("DELSIN"), '+N' day markers
\* glued to a time and city abbreviations
C27_Idempotent == pc = "repreprocessed" => out2 = out

\* C27, the part that holds: a text without a glued pair of airports that
\* are city abbreviations and without a glued day marker is left alone by a
\* second call
C27_IdempotentWithoutGlue ==
    (/\ pc = "repreprocessed"
     /\ text.plus # "glued"
     /\ \A i \in 1..Len(text.glued) :
           SplitsPair(text.glued[i]) => text.glued[i][1] \notin CITY_ABBREVS
                                        /\ text.glued[i][2] \notin CITY_ABBREVS)
        => out2 = out

-----------------------------------------------------------------------------
(* C28: the time hints                                                     *)

\* HintExtractor.extract has returned the hints of the call's text
HintsExtracted == entry \in {"single", "multi"} /\ pc \in {"request", "respond", "process"}

\* the valid clock times of the text extract was given, in document order
TimesFound == TextPreprocessor_process(text).times

\* C28: when extract finds two or more valid clock times, hints.departure_time
\* is the first one found and hints.arrival_time is the second one found, in
\* document order, also when the text holds three or more times
C28_FirstAndSecondTime ==
    (HintsExtracted /\ Len(TimesFound) >= 2) =>
        /\ regexHints.departure_time = TimesFound[1]
        /\ regexHints.arrival_time = TimesFound[2]

\* C28 as the code has it: when extract finds two or more valid clock times,
\* hints.departure_time is the first one found and hints.arrival_time is the
\* last one found, which is the second only when exactly two are found
C28_FirstAndLastTime ==
    (HintsExtracted /\ Len(TimesFound) >= 2) =>
        /\ regexHints.departure_time = TimesFound[1]
        /\ regexHints.arrival_time = TimesFound[Len(TimesFound)]
        /\ Len(TimesFound) = 2 => regexHints.arrival_time = TimesFound[2]

\* extract returned the hints of a text with three different times
C28_Witness ==
    /\ HintsExtracted /\ Len(TimesFound) = 3
    /\ TimesFound[2] # TimesFound[3]
    /\ regexHints.departure_time = TimesFound[1]
    /\ regexHints.arrival_time = TimesFound[3]

-----------------------------------------------------------------------------
(* C29: well-formed itineraries of the GDS path                            *)

\* a segment between two distinct airports of the reference data with both
\* clock times
WellFormedSeg(seg) ==
    /\ seg.departure_airport \in AIRPORT_CODES /\ seg.arrival_airport \in AIRPORT_CODES
    /\ seg.departure_airport # seg.arrival_airport
    /\ seg.departure_time >= 0 /\ seg.arrival_time >= 0

\* GDSParser.parse returned the flight of one section, every segment well
\* formed and departing from the airport the previous one arrived at
ParsedWellFormed ==
    /\ ParsedOneSection /\ Len(out) = 1
    /\ Len(out[1].segments) >= 1
    /\ \A i \in 1..Len(out[1].segments) : WellFormedSeg(out[1].segments[i])
    /\ Chained(out[1].segments)

\* C29: a well-formed connecting itinerary parsed by GDSParser.parse
\* validates: when every segment's airports are distinct codes of the
\* reference data, both clock times are there and each segment departs from
\* the previous segment's arrival airport, the flight has is_valid = true and
\* no parse errors, for any number of segments
C29_WellFormedValid ==
    ParsedWellFormed => out[1].is_valid /\ out[1].parse_errors = <<>>

\* C29, the part that holds: a well-formed flight of a single segment
\* validates
C29_SingleSegmentValid ==
    (ParsedWellFormed /\ Len(out[1].segments) = 1)
        => out[1].is_valid /\ out[1].parse_errors = <<>>

-----------------------------------------------------------------------------
(* C30: the dates of the flights of one block                              *)

\* two date strings name the same day and month
SameDayMonth(a, b) == a.k = "date" /\ b.k = "date" /\ a.d = b.d /\ a.m = b.m

\* process returned, in multi-flight mode, a flight of a text in which the
\* hints found several distinct dates, the date the extractor supplied for
\* the flight being number j of them
OwnDateFound(j) ==
    /\ ProcessReturned /\ multi
    /\ j \in 1..Len(regexHints.all_dates)
    /\ SameDayMonth(regexHints.all_dates[j], data[1].departure_date)
    /\ \E i \in 1..Len(regexHints.all_dates) :
          ~SameDayMonth(regexHints.all_dates[i], regexHints.all_dates[j])

\* C30: in multi-flight mode, for a text holding several distinct dates,
\* process leaves a flight's extractor-supplied departure_date unchanged, up
\* to formatting, when that date is itself one of the regex-found dates; a
\* flight is never given the date of another flight of the same block
C30_OwnDateKept ==
    \A j \in 1..MaxDates :
        OwnDateFound(j) => SameDayMonth(out[1].departure_date, data[1].departure_date)

\* C30, the part that holds: the supplied date is kept when it is the first
\* of the regex-found dates
C30_FirstDateKept ==
    OwnDateFound(1) => SameDayMonth(out[1].departure_date, data[1].departure_date)

=============================================================================
